---- MODULE Spec2Model ----
(***************************************************************************)
(* A model of pufferfish's application core (src/app.rs, src/app/sdl.rs,   *)
(* src/input.rs, src/util.rs, src/assets.rs): the TypeMap, the             *)
(* per-signature legality check, the composition of the setup and          *)
(* per-frame callback chains, the event loop that drives them, the key     *)
(* lists of the Input it feeds, and the ResourceManager and Assets the     *)
(* callbacks load and borrow resources through.                            *)
(***************************************************************************)
EXTENDS Integers, Sequences, FiniteSets, TLC

(***************************************************************************)
(* Bounds of the model.                                                    *)
(***************************************************************************)
\* Longest callback signature the legality specification enumerates.
MaxArity == 3
\* Registration calls (add_state, add_state_with, add_init_callback,
\* add_frame_callback) made before App::run.
MaxRegs == 3
\* Iterations of the event loop that reach the frame step.
MaxTicks == 3
\* TypeMap::insert calls of the store specification.
MaxInserts == 4
\* Stored values are the numbers 0 .. ValMod-1; an increment wraps around.
ValMod == 4
\* Events the window system delivers during one run of the event loop.
MaxEvents == 3
\* Resources the resource specification allocates.
MaxResources == 2
\* ResourceRefs and ResourceRefMuts alive at one time.
MaxGuards == 2
\* Assets::load calls of the asset specification.
MaxLoads == 3
\* Assets::update calls of the asset specification.
MaxAssetUpdates == 2
\* The longest parameter list impl_callback! is instantiated for (A .. Z).
MaxParams == 26

(***************************************************************************)
(* Types.  A type is << module path, name >>; its TypeId is the pair, its  *)
(* display name is what util::type_name leaves of the full path.           *)
(***************************************************************************)
Counter == <<"game", "Counter">>
Y == <<"game", "Y">>
Z == <<"game::util", "Counter">>
ResourceManagerT == <<"pufferfish::assets", "ResourceManager">>
GraphicsT == <<"pufferfish::graphics", "Graphics">>
InputT == <<"pufferfish::input", "Input">>
AssetsT == <<"pufferfish::assets", "Assets">>

UserTypes == {Counter, Y}
EngineTypes == {ResourceManagerT, GraphicsT, InputT, AssetsT}
\* The types the legality specification builds signatures from.
SigTypes == {Counter, Y, Z}
Unit == <<"", "()">>

Vals == 0 .. (ValMod - 1)

\* util::type_name: the path up to the last "::" is cut off.
type_name(T) == T[2]

\* Argable::desc for &T (unique = FALSE) and &mut T (unique = TRUE).
desc(T, unique) == [tid |-> T, tname |-> type_name(T), unique |-> unique]

Shared(T) == desc(T, FALSE)
Exclusive(T) == desc(T, TRUE)

(***************************************************************************)
(* Callback::assert_legal.  The outcome of a call that can panic is a      *)
(* record: kind = "none" when it returned, else the panic and its message. *)
(***************************************************************************)
NoPanic == [kind |-> "none", reason |-> "", tname |-> "", listing |-> <<>>]

RECURSIVE SigTokens(_)
\* arg_types.iter().flat_map(|e| [", ", "&mut " | "&", e.tname])
SigTokens(arg_types) ==
    IF arg_types = <<>> THEN <<>>
    ELSE << ", ", IF Head(arg_types).unique THEN "&mut " ELSE "&",
            Head(arg_types).tname >> \o SigTokens(Tail(arg_types))

\* Mutant: the leading separator is not skipped.
SigListingNoSkip(arg_types) == SigTokens(arg_types)

\* ... .skip(1).collect::<String>(), kept as the sequence of its pieces.
SigListing(arg_types) ==
    IF arg_types = <<>> THEN <<>> ELSE Tail(SigTokens(arg_types))

IllegalSignature(arg_types, reason, a) ==
    [kind |-> "IllegalSignature", reason |-> reason, tname |-> a.tname,
     listing |-> SigListing(arg_types)]

RECURSIVE ScanPairsOnlyUnique(_, _)
\* Mutant: the second branch (one unique, one shared) is missing.
ScanPairsOnlyUnique(arg_types, k) ==
    LET n == Len(arg_types) IN
    IF k >= n * n THEN NoPanic
    ELSE LET a == arg_types[(k \div n) + 1]
             b == arg_types[(k % n) + 1]
         IN  IF (k \div n) # (k % n) /\ a.tid = b.tid /\ a.unique /\ b.unique
             THEN IllegalSignature(arg_types, "multiple unique references to", a)
             ELSE ScanPairsOnlyUnique(arg_types, k + 1)

RECURSIVE ScanPairs(_, _)
\* The two nested loops of assert_legal, pair k of the n*n it visits:
\* i = k \div n (outer), j = k % n (inner).
ScanPairs(arg_types, k) ==
    LET n == Len(arg_types) IN
    IF k >= n * n THEN NoPanic
    ELSE LET i == k \div n
             j == k % n
             a == arg_types[i + 1]
             b == arg_types[j + 1]
         IN  IF i # j /\ a.tid = b.tid
             THEN IF a.unique /\ b.unique
                  THEN IllegalSignature(arg_types, "multiple unique references to", a)
                  ELSE IF a.unique \/ b.unique
                       THEN IllegalSignature(arg_types,
                                "both unique and shared references to", a)
                       ELSE ScanPairs(arg_types, k + 1)
             ELSE ScanPairs(arg_types, k + 1)

RECURSIVE ScanPairsOneMessage(_, _)
\* Mutant: every conflict is reported with the message of the mixed case.
ScanPairsOneMessage(arg_types, k) ==
    LET n == Len(arg_types) IN
    IF k >= n * n THEN NoPanic
    ELSE LET a == arg_types[(k \div n) + 1]
             b == arg_types[(k % n) + 1]
         IN  IF (k \div n) # (k % n) /\ a.tid = b.tid /\ (a.unique \/ b.unique)
             THEN IllegalSignature(arg_types,
                      "both unique and shared references to", a)
             ELSE ScanPairsOneMessage(arg_types, k + 1)

RECURSIVE ScanPairsFirstUnique(_, _)
\* Mutant: the first branch tests a.unique alone, the second b.unique alone.
ScanPairsFirstUnique(arg_types, k) ==
    LET n == Len(arg_types) IN
    IF k >= n * n THEN NoPanic
    ELSE LET a == arg_types[(k \div n) + 1]
             b == arg_types[(k % n) + 1]
         IN  IF (k \div n) # (k % n) /\ a.tid = b.tid /\ a.unique
             THEN IllegalSignature(arg_types, "multiple unique references to", a)
             ELSE IF (k \div n) # (k % n) /\ a.tid = b.tid /\ b.unique
                  THEN IllegalSignature(arg_types,
                           "both unique and shared references to", a)
                  ELSE ScanPairsFirstUnique(arg_types, k + 1)

RECURSIVE ScanAdjacent(_, _)
\* Mutant: only neighbouring parameters are compared.
ScanAdjacent(arg_types, i) ==
    IF i + 1 > Len(arg_types) THEN NoPanic
    ELSE LET a == arg_types[i]
             b == arg_types[i + 1]
         IN  IF a.tid = b.tid /\ a.unique /\ b.unique
             THEN IllegalSignature(arg_types, "multiple unique references to", a)
             ELSE IF a.tid = b.tid /\ (a.unique \/ b.unique)
                  THEN IllegalSignature(arg_types,
                           "both unique and shared references to", a)
                  ELSE ScanAdjacent(arg_types, i + 1)

assert_legal_adjacent(arg_types) == ScanAdjacent(arg_types, 1)

assert_legal_one_message(arg_types) == ScanPairsOneMessage(arg_types, 0)

assert_legal_first_unique(arg_types) == ScanPairsFirstUnique(arg_types, 0)

assert_legal_only_unique(arg_types) == ScanPairsOnlyUnique(arg_types, 0)

assert_legal(arg_types) == ScanPairs(arg_types, 0)

(***************************************************************************)
(* TypeMap.  inner is a function from the TypeIds present to pointers; a   *)
(* pointer is an index of the heap, whose boxes record the type, the value *)
(* and how many times the box was released.                                *)
(***************************************************************************)
TypeMapNew == [t \in {} |-> 0]

BoxNew(h, T, v) == Append(h, [tid |-> T, val |-> v, freed |-> 0])

\* drop(Box::from_raw(ptr))
BoxDrop(h, ptr) == [h EXCEPT ![ptr].freed = @ + 1]

\* Mutant: the previous value is removed from the map but never released.
TypeMapInsertLeak(m, h, T, v) ==
    LET h2 == BoxNew(h, T, v)
    IN  [inner |-> [t \in (DOMAIN m) \cup {T} |-> IF t = T THEN Len(h2) ELSE m[t]],
         heap |-> h2]

\* Mutant: an entry that is already present is kept (entry().or_insert()).
TypeMapInsertKeep(m, h, T, v) ==
    IF T \in DOMAIN m THEN [inner |-> m, heap |-> h]
    ELSE LET h2 == BoxNew(h, T, v)
         IN  [inner |-> [t \in (DOMAIN m) \cup {T} |-> IF t = T THEN Len(h2) ELSE m[t]],
              heap |-> h2]

\* TypeMap::insert: the map and the heap after the call.
TypeMapInsert(m, h, T, v) ==
    LET h1 == IF T \in DOMAIN m THEN BoxDrop(h, m[T]) ELSE h
        removed == [t \in (DOMAIN m) \ {T} |-> m[t]]
        h2 == BoxNew(h1, T, v)
    IN  [inner |-> [t \in (DOMAIN removed) \cup {T} |->
                        IF t = T THEN Len(h2) ELSE removed[t]],
         heap |-> h2]

\* TypeMap::get / get_mut: Option of a reference, <<>> for None.
TypeMapGet(m, T) == IF T \in DOMAIN m THEN << m[T] >> ELSE <<>>

RECURSIVE DropAll(_, _)
DropAll(h, ptrs) ==
    IF ptrs = {} THEN h
    ELSE LET p == CHOOSE x \in ptrs : TRUE
         IN  DropAll(BoxDrop(h, p), ptrs \ {p})

\* Drop for TypeMap: every drained entry is released.
TypeMapDrop(m, h) == DropAll(h, {m[t] : t \in DOMAIN m})

(***************************************************************************)
(* Callbacks.  A callback value is its signature (the ArgDescs of its      *)
(* parameters, in declaration order), its Output type and what its body    *)
(* does: every callback of the model reads each of its arguments, adds 1   *)
(* to each argument it holds exclusively, and returns Unit or, when its    *)
(* Output is a type T, (its first argument + k) as a value of T (k itself  *)
(* when it has no parameter).                                              *)
(***************************************************************************)
Callback(sig, out, k) == [sig |-> sig, out |-> out, k |-> k]

\* The closures that implement the trait Callback: impl_callback!(A, .., Z)
\* emits the impl for its 26 parameters and recurses on B, .., Z while a
\* second parameter is left, so the last impl is the one for (Z,): a closure
\* of 1 to 26 Argable parameters has an impl, one without parameters none.
Implemented(sig) == Len(sig) \in 1 .. MaxParams

incr == Callback(<< Exclusive(Counter) >>, Unit, 0)
report == Callback(<< Shared(Counter) >>, Unit, 0)
read_y == Callback(<< Shared(Y) >>, Unit, 0)
read_twice == Callback(<< Shared(Counter), Shared(Counter) >>, Unit, 0)
mixed == Callback(<< Shared(Counter), Exclusive(Counter) >>, Unit, 0)
read_input == Callback(<< Shared(InputT) >>, Unit, 0)
nullary == Callback(<<>>, Unit, 0)
derive_y == Callback(<< Shared(Counter) >>, Y, 1)
make_counter == Callback(<< Shared(InputT) >>, Counter, 1)
twice_mut == Callback(<< Exclusive(Counter), Exclusive(Counter) >>, Y, 0)
incr_twice == Callback(<< Exclusive(Counter), Exclusive(Counter) >>, Unit, 0)

\* What the application of the main specification may register.
FrameCallbacks ==
    {incr, report, read_y, read_twice, read_input, mixed, incr_twice}
InitCallbacks == {incr, read_y, read_input, mixed}
StateCallbacks == {derive_y, make_counter, twice_mut}
States == {<<Counter, 0>>, <<Counter, 2>>, <<Y, 0>>, <<InputT, 1>>}

\* Every signature of at most MaxArity parameters over SigTypes.
ArgDescs == {desc(T, u) : T \in SigTypes, u \in BOOLEAN}
Signatures == UNION {[1 .. n -> ArgDescs] : n \in 0 .. MaxArity}

(***************************************************************************)
(* Input and the events of the window system.                              *)
(***************************************************************************)
\* KeyCodes are the keys convert_keycode maps; "F24" is an SDL keycode it
\* maps to None.
KeyCodes == {"A"}
SDLKeyCodes == KeyCodes \cup {"F24"}

\* convert_keycode: Option<KeyCode>, <<>> for None.
convert_keycode(keycode) == IF keycode \in KeyCodes THEN << keycode >> ELSE <<>>

Quit == [type |-> "Quit", keycode |-> "", repeat |-> FALSE]
Other == [type |-> "Other", keycode |-> "", repeat |-> FALSE]
KeyDown(keycode, repeat) ==
    [type |-> "KeyDown", keycode |-> keycode, repeat |-> repeat]
KeyUp(keycode, repeat) ==
    [type |-> "KeyUp", keycode |-> keycode, repeat |-> repeat]

\* What the window system may deliver: Quit, an event the loop has no arm
\* for, and the key events of a mapped key (first press or repeat) and of an
\* unmapped one.
KeyInputs == (KeyCodes \X BOOLEAN) \cup ((SDLKeyCodes \ KeyCodes) \X {FALSE})
Events ==
    {Quit, Other}
        \cup {KeyDown(k[1], k[2]) : k \in KeyInputs}
        \cup {KeyUp(k[1], k[2]) : k \in KeyInputs}

\* Input::new
InputNew == [keys_down |-> <<>>, keys_pressed |-> <<>>, keys_released |-> <<>>]

\* Mutant: update clears the released keys only.
update_keeps_pressed(inp) == [inp EXCEPT !.keys_released = <<>>]

\* Input::update
update(inp) == [inp EXCEPT !.keys_pressed = <<>>, !.keys_released = <<>>]

\* Vec::contains
contains(vec, x) == \E i \in 1 .. Len(vec) : vec[i] = x

\* Input::is_key_down, is_key_pressed, is_key_released
is_key_down(inp, key) == contains(inp.keys_down, key)
is_key_pressed(inp, key) == contains(inp.keys_pressed, key)
is_key_released(inp, key) == contains(inp.keys_released, key)

\* Mutant: the KeyUp arm leaves keys_down alone.
HandleKeyNoRetain(inp, event) ==
    LET key == convert_keycode(event.keycode)
    IN  IF key = <<>> \/ event.repeat THEN inp
        ELSE IF event.type = "KeyDown"
        THEN [inp EXCEPT
                !.keys_down = IF contains(@, key[1]) THEN @ ELSE Append(@, key[1]),
                !.keys_pressed = IF contains(@, key[1]) THEN @ ELSE Append(@, key[1])]
        ELSE [inp EXCEPT !.keys_released = Append(@, key[1])]

\* The arm of the match in the poll loop that handles a key event.
HandleKey(inp, event) ==
    LET key == convert_keycode(event.keycode)
    IN  IF key = <<>> \/ event.repeat THEN inp
        ELSE IF event.type = "KeyDown"
        THEN [inp EXCEPT
                !.keys_down = IF contains(@, key[1]) THEN @ ELSE Append(@, key[1]),
                !.keys_pressed = IF contains(@, key[1]) THEN @ ELSE Append(@, key[1])]
        ELSE [inp EXCEPT
                !.keys_down = SelectSeq(@, LAMBDA k : k # key[1]),
                !.keys_released = Append(@, key[1])]

(***************************************************************************)
(* The state.                                                              *)
(***************************************************************************)
VARIABLES
    state,            \* App.state: the TypeMap's inner map, TypeId -> pointer
    heap,             \* the boxes the TypeMap allocated
    frame_callbacks,  \* App.frame_callbacks: the composed closure
    init_callbacks,   \* App.init_callbacks: the composed closure
    pc,               \* where the program is
    todo,             \* the calls the running chain invocation has yet to make
    cur,              \* << the callback being invoked >>, or << >>
    refs,             \* the references handed to the callback being invoked
    tick,             \* iterations of the event loop that reached the frame step
    swaps,            \* buffer swaps
    panic,            \* the panic that ended the program, or NoPanic
    regs,             \* history: the registration calls that returned, in order
    attempt,          \* history: << the last registration call made >>, or << >>
    log,              \* history: the callback invocations that returned, in order
    initRuns,         \* history: invocations of the setup chain
    inserted,         \* history: the TypeMap::insert calls of the store specification
    events,           \* the events the window system has queued for the event pump
    input,            \* the key lists of the Input the store holds
    updates,          \* history: calls of Input::update
    polled,           \* history: the events the poll loop took off the queue
    storage,          \* ResourceManager.storage: (TypeId, idx) -> Resource
    guards,           \* the ResourceRefs and ResourceRefMuts not yet dropped
    loaders,          \* Assets.loaders: the (TypeId, extension) pairs registered
    handles,          \* Assets.handles: (TypeId, path) -> idx
    tasks,            \* Assets.tasks: the file tasks not yet resolved
    ready,            \* the file tasks whose next poll reports completion
    call,             \* history: the latest ResourceManager or Assets call
    alog,             \* history: what the Assets calls did, in order
    replacing         \* the replace_with call in progress, or NoReplace

\* The state of the asset system.
assetVars == << storage, guards, loaders, handles, tasks, ready, call, alog >>

vars == << state, heap, frame_callbacks, init_callbacks, pc, todo, cur, refs,
           tick, swaps, panic, regs, attempt, log, initRuns, inserted, events,
           input, updates, polled, storage, guards, loaders, handles, tasks,
           ready, call, alog, replacing >>

\* No call of replace_with is in progress.
NoReplace ==
    [kind |-> "none", f |-> <<>>, was |-> <<>>, old |-> <<>>, new |-> <<>>,
     uses |-> 0, reg |-> <<>>]

\* ResourceManager::new and Assets::new, before any loader is registered.
NoCall == [op |-> "none", key |-> <<>>, result |-> ""]
AssetsNew ==
    /\ storage = <<>>
    /\ guards = <<>>
    /\ loaders = {}
    /\ handles = <<>>
    /\ tasks = <<>>
    /\ ready = {}
    /\ call = NoCall
    /\ alog = <<>>

\* Box::new(|_| {}): the closure both chains start as.
EmptyChain == <<>>

\* App::default / App::new.
Init ==
    /\ state = TypeMapNew
    /\ heap = <<>>
    /\ frame_callbacks = EmptyChain
    /\ init_callbacks = EmptyChain
    /\ pc = "build"
    /\ todo = <<>>
    /\ cur = <<>>
    /\ refs = <<>>
    /\ tick = 0
    /\ swaps = 0
    /\ panic = NoPanic
    /\ regs = <<>>
    /\ attempt = <<>>
    /\ log = <<>>
    /\ initRuns = 0
    /\ inserted = <<>>
    /\ events = <<>>
    /\ input = InputNew
    /\ updates = 0
    /\ polled = <<>>
    /\ AssetsNew
    /\ replacing = NoReplace

(***************************************************************************)
(* Chains.  A chain is the closure the registrations composed: EmptyChain, *)
(* or << cbs, entry >> for "move |args| { cbs(args); callback.call(args);  *)
(* [args.insert(state)] }".                                                *)
(***************************************************************************)
Entry(kind, callback, reg) == [kind |-> kind, callback |-> callback, reg |-> reg]

\* The closure built by the argument of replace_with.
Compose(cbs, entry) == << cbs, entry >>

\* The outcome of running replace_with's f on the old value.
Returned(v) == [panics |-> FALSE, value |-> v]

\* util::replace_with: dest after the call, and whether the process aborted.
replace_with(dest, f) ==
    IF f.panics THEN [abort |-> TRUE, dest |-> dest]
    ELSE [abort |-> FALSE, dest |-> f.value]

RECURSIVE CallOrderReversed(_)
\* Mutant: the new callback is called before the chain it wraps.
CallOrderReversed(chain) ==
    IF chain = EmptyChain THEN <<>>
    ELSE << chain[2] >> \o CallOrderReversed(chain[1])

RECURSIVE CallOrder(_)
\* The calls one invocation of the closure makes, in order: cbs(args) first,
\* then the callback the closure captured.
CallOrder(chain) ==
    IF chain = EmptyChain THEN <<>>
    ELSE Append(CallOrder(chain[1]), chain[2])

(***************************************************************************)
(* Registration (the builder calls made before App::run).                  *)
(***************************************************************************)
NoCallback == Callback(<<>>, Unit, 0)

Registration(kind, callback, T, v) ==
    [kind |-> kind, callback |-> callback, T |-> T, v |-> v]

Building == pc = "build" /\ Len(regs) < MaxRegs

\* Mutant: the value is not inserted by the call but by the setup chain, as
\* if it had been registered with add_state_with(move || v).
AddStateDeferred(T, v) ==
    /\ Building
    /\ init_callbacks' = Compose(init_callbacks,
                            Entry("state_with", Callback(<<>>, T, v), Len(regs) + 1))
    /\ regs' = Append(regs, Registration("state", NoCallback, T, v))
    /\ attempt' = << Registration("state", NoCallback, T, v) >>
    /\ UNCHANGED << state, heap, frame_callbacks, pc, todo, cur, refs, tick,
                    swaps, panic, log, initRuns, inserted, events,
                    input, updates, polled, assetVars, replacing >>

\* Mutant: a value whose type is already in the state is ignored.
AddStateFirstWins(T, v) ==
    /\ Building
    /\ LET r == TypeMapInsertKeep(state, heap, T, v)
       IN  /\ state' = r.inner
           /\ heap' = r.heap
    /\ regs' = Append(regs, Registration("state", NoCallback, T, v))
    /\ attempt' = << Registration("state", NoCallback, T, v) >>
    /\ UNCHANGED << frame_callbacks, init_callbacks, pc, todo, cur, refs, tick,
                    swaps, panic, log, initRuns, inserted, events,
                    input, updates, polled, assetVars, replacing >>

\* App::add_state
AddState(T, v) ==
    /\ Building
    /\ LET r == TypeMapInsert(state, heap, T, v)
       IN  /\ state' = r.inner
           /\ heap' = r.heap
    /\ regs' = Append(regs, Registration("state", NoCallback, T, v))
    /\ attempt' = << Registration("state", NoCallback, T, v) >>
    /\ UNCHANGED << frame_callbacks, init_callbacks, pc, todo, cur, refs, tick,
                    swaps, panic, log, initRuns, inserted, events,
                    input, updates, polled, assetVars, replacing >>

\* Mutant: the chain is replaced first and the signature checked afterwards.
RegisterThenCheck(kind, callback) ==
    LET legal == assert_legal(callback.sig)
        entry == Entry(kind, callback, Len(regs) + 1)
        chain == IF kind = "frame" THEN frame_callbacks ELSE init_callbacks
        rw == replace_with(chain, Returned(Compose(chain, entry)))
    IN  /\ Implemented(callback.sig)
        /\ attempt' = << Registration(kind, callback, callback.out, 0) >>
        /\ frame_callbacks' = IF kind = "frame" THEN rw.dest ELSE frame_callbacks
        /\ init_callbacks' = IF kind = "frame" THEN init_callbacks ELSE rw.dest
        /\ IF legal.kind # "none"
           THEN /\ pc' = "panicked"
                /\ panic' = legal
                /\ UNCHANGED regs
           ELSE /\ pc' = IF rw.abort THEN "aborted" ELSE pc
                /\ panic' = panic
                /\ regs' = Append(regs, Registration(kind, callback, callback.out, 0))
        /\ UNCHANGED << state, heap, todo, cur, refs, tick, swaps, log, initRuns,
                        inserted, events, input, updates, polled, assetVars,
                        replacing >>

\* Mutant: the signature is checked together with that of the registration
\* made just before, as if the two callbacks held their references at once.
RegisterCrossCheck(kind, callback) ==
    LET prior == IF regs = <<>> THEN <<>> ELSE regs[Len(regs)].callback.sig
        legal == assert_legal(prior \o callback.sig)
        entry == Entry(kind, callback, Len(regs) + 1)
        chain == IF kind = "frame" THEN frame_callbacks ELSE init_callbacks
        rw == replace_with(chain, Returned(Compose(chain, entry)))
    IN  /\ Implemented(callback.sig)
        /\ attempt' = << Registration(kind, callback, callback.out, 0) >>
        /\ IF legal.kind # "none"
           THEN /\ pc' = "panicked"
                /\ panic' = legal
                /\ UNCHANGED << frame_callbacks, init_callbacks, regs >>
           ELSE /\ pc' = IF rw.abort THEN "aborted" ELSE pc
                /\ panic' = panic
                /\ frame_callbacks' = IF kind = "frame" THEN rw.dest ELSE frame_callbacks
                /\ init_callbacks' = IF kind = "frame" THEN init_callbacks ELSE rw.dest
                /\ regs' = Append(regs, Registration(kind, callback, callback.out, 0))
        /\ UNCHANGED << state, heap, todo, cur, refs, tick, swaps, log, initRuns,
                        inserted, events, input, updates, polled, assetVars,
                        replacing >>

\* The body shared by the three callback registrations, which take only an
\* F: Callback<Args, _>: F::assert_legal(), then replace_with on the chain
\* `kind` names.
Register(kind, callback) ==
    LET legal == assert_legal(callback.sig)
        entry == Entry(kind, callback, Len(regs) + 1)
        chain == IF kind = "frame" THEN frame_callbacks ELSE init_callbacks
        rw == replace_with(chain, Returned(Compose(chain, entry)))
    IN  /\ Implemented(callback.sig)
        /\ attempt' = << Registration(kind, callback, callback.out, 0) >>
        /\ IF legal.kind # "none"
           THEN /\ pc' = "panicked"
                /\ panic' = legal
                /\ UNCHANGED << frame_callbacks, init_callbacks, regs >>
           ELSE /\ pc' = IF rw.abort THEN "aborted" ELSE pc
                /\ panic' = panic
                /\ frame_callbacks' = IF kind = "frame" THEN rw.dest ELSE frame_callbacks
                /\ init_callbacks' = IF kind = "frame" THEN init_callbacks ELSE rw.dest
                /\ regs' = Append(regs, Registration(kind, callback, callback.out, 0))
        /\ UNCHANGED << state, heap, todo, cur, refs, tick, swaps, log, initRuns,
                        inserted, events, input, updates, polled, assetVars,
                        replacing >>

\* App::add_state_with
AddStateWith(callback) ==
    /\ Building
    /\ Register("state_with", callback)

\* App::add_frame_callback
AddFrameCallback(callback) ==
    /\ Building
    /\ Register("frame", callback)

\* App::add_init_callback
AddInitCallback(callback) ==
    /\ Building
    /\ Register("init", callback)

(***************************************************************************)
(* App::run -> backend::run -> App::init.                                  *)
(***************************************************************************)
RECURSIVE InsertAll(_, _, _)
\* The self.state.insert(..) calls of App::init, in order; an engine resource
\* is the value 0.
InsertAll(m, h, types) ==
    IF types = <<>> THEN [inner |-> m, heap |-> h]
    ELSE LET r == TypeMapInsert(m, h, Head(types), 0)
         IN  InsertAll(r.inner, r.heap, Tail(types))

\* Mutant: App::init does not insert the Input.
EngineResourcesNoInput == << ResourceManagerT, GraphicsT, AssetsT >>

EngineResources == << ResourceManagerT, GraphicsT, InputT, AssetsT >>

\* Mutant: the setup chain is invoked again with every frame.
FrameChainWithSetup == CallOrder(init_callbacks) \o CallOrder(frame_callbacks)

\* (app.frame_callbacks.as_ref())(&mut app.state): the calls one tick makes.
FrameChain == CallOrder(frame_callbacks)

\* Mutant: the state-derivation callbacks run first, the init callbacks after.
SetupChainByKind ==
    SelectSeq(CallOrder(init_callbacks), LAMBDA e : e.kind = "state_with")
        \o SelectSeq(CallOrder(init_callbacks), LAMBDA e : e.kind = "init")

\* (self.init_callbacks)(&mut self.state): the calls App::init makes.
SetupChain == CallOrder(init_callbacks)

\* App::run up to the invocation of the setup chain.  The loaders App::init
\* registers depend on the features of the build; this is a build without
\* png-decoder and text, whose Assets starts with no loader.
AppInit ==
    /\ pc = "build"
    /\ LET r == InsertAll(state, heap, EngineResources)
       IN  /\ state' = r.inner
           /\ heap' = r.heap
    /\ input' = InputNew
    /\ todo' = SetupChain
    /\ initRuns' = initRuns + 1
    /\ pc' = "init"
    /\ UNCHANGED << frame_callbacks, init_callbacks, cur, refs, tick, swaps,
                    panic, regs, attempt, log, inserted, events, updates, polled,
                    assetVars, replacing >>

(***************************************************************************)
(* Callback::call.                                                         *)
(***************************************************************************)
MissingType ==
    [kind |-> "MissingType", reason |-> "called Option::unwrap() on a None value",
     tname |-> "", listing |-> <<>>]

RECURSIVE GetArgs(_, _)
\* $first::get(args), $other::get(args), ..: evaluated left to right; the
\* unwrap of the first absent type panics.  << ok, references >>.
GetArgs(m, sig) ==
    IF sig = <<>> THEN [ok |-> TRUE, refs |-> <<>>]
    ELSE LET got == TypeMapGet(m, Head(sig).tid)
         IN  IF got = <<>> THEN [ok |-> FALSE, refs |-> <<>>]
             ELSE LET rest == GetArgs(m, Tail(sig))
                  IN  [ok |-> rest.ok,
                       refs |-> IF rest.ok
                                THEN << [tid |-> Head(sig).tid, ptr |-> got[1],
                                         unique |-> Head(sig).unique] >> \o rest.refs
                                ELSE <<>>]

Running == pc \in {"init", "frame"}

\* Mutant: a callback one of whose types is absent is skipped (get returns
\* an Option the caller tests) and the chain goes on.
CallBeginSkipMissing ==
    /\ Running
    /\ cur = <<>>
    /\ todo # <<>>
    /\ LET entry == Head(todo)
           args == GetArgs(state, entry.callback.sig)
       IN  IF args.ok
           THEN /\ cur' = << entry >>
                /\ refs' = args.refs
                /\ UNCHANGED todo
           ELSE /\ todo' = Tail(todo)
                /\ UNCHANGED << cur, refs >>
    /\ UNCHANGED << state, heap, frame_callbacks, init_callbacks, pc, panic, tick,
                    swaps, regs, attempt, log, initRuns, inserted, events,
                    input, updates, polled, assetVars, replacing >>

\* The arguments are extracted and the callback is entered.
CallBegin ==
    /\ Running
    /\ cur = <<>>
    /\ todo # <<>>
    /\ LET entry == Head(todo)
           args == GetArgs(state, entry.callback.sig)
       IN  /\ cur' = << entry >>
           /\ IF args.ok
              THEN /\ refs' = args.refs
                   /\ UNCHANGED << pc, panic >>
              ELSE /\ refs' = <<>>
                   /\ pc' = "panicked"
                   /\ panic' = MissingType
    /\ UNCHANGED << state, heap, frame_callbacks, init_callbacks, todo, tick,
                    swaps, regs, attempt, log, initRuns, inserted, events,
                    input, updates, polled, assetVars, replacing >>

\* What the body reads through its references.
Seen(h, rs) == [i \in 1 .. Len(rs) |-> h[rs[i].ptr].val]

\* Mutant: the body is handed a copy, its writes do not reach the store.
MutateCopy(h, rs) == h

RECURSIVE Mutate(_, _)
\* The writes of the body: 1 is added through every exclusive reference.
Mutate(h, rs) ==
    IF rs = <<>> THEN h
    ELSE Mutate(IF Head(rs).unique
                THEN [h EXCEPT ![Head(rs).ptr].val = (@ + 1) % ValMod]
                ELSE h,
                Tail(rs))

\* The value the body returns.
Output(callback, seen) ==
    IF callback.out = Unit THEN 0
    ELSE IF seen = <<>> THEN callback.k % ValMod
    ELSE (seen[1] + callback.k) % ValMod

\* Mutant: add_state_with drops the value its callback returned.
AfterCallNoInsert(entry, m, h, ret) == [inner |-> m, heap |-> h]

\* What the composed closure does once callback.call(args) returned:
\* args.insert(state) for add_state_with, nothing for the other two.
AfterCall(entry, m, h, ret) ==
    IF entry.kind = "state_with"
    THEN TypeMapInsert(m, h, entry.callback.out, ret)
    ELSE [inner |-> m, heap |-> h]

\* The body runs and returns; the references end with the call.
CallEnd ==
    /\ Running
    /\ cur # <<>>
    /\ LET entry == cur[1]
           seen == Seen(heap, refs)
           ret == Output(entry.callback, seen)
           r == AfterCall(entry, state, Mutate(heap, refs), ret)
       IN  /\ state' = r.inner
           /\ heap' = r.heap
           /\ log' = Append(log, [reg |-> entry.reg, kind |-> entry.kind,
                                  chain |-> pc, tick |-> tick, seen |-> seen,
                                  ret |-> ret])
    /\ cur' = <<>>
    /\ refs' = <<>>
    /\ todo' = Tail(todo)
    /\ UNCHANGED << frame_callbacks, init_callbacks, pc, tick, swaps, panic,
                    regs, attempt, initRuns, inserted, events, input, updates, polled, assetVars,
                    replacing >>

(***************************************************************************)
(* backend::run after App::init: the event loop.                           *)
(***************************************************************************)
ChainReturned == todo = <<>> /\ cur = <<>>

\* App::init returned: the viewport is set and the loop is entered.
SetupDone ==
    /\ pc = "init"
    /\ ChainReturned
    /\ pc' = "poll"
    /\ UNCHANGED << state, heap, frame_callbacks, init_callbacks, todo, cur, refs,
                    tick, swaps, panic, regs, attempt, log, initRuns, inserted, events,
                    input, updates, polled, assetVars, replacing >>

\* One pass of input.update() and the event poll taken as a whole, with
\* Quit the only event told apart: a Quit event breaks out of the loop,
\* otherwise the per-frame chain is invoked.
Poll(quit) ==
    /\ pc = "poll"
    /\ IF quit
       THEN /\ pc' = "quit"
            /\ UNCHANGED << todo, tick >>
       ELSE /\ tick < MaxTicks
            /\ pc' = "frame"
            /\ tick' = tick + 1
            /\ todo' = FrameChain
    /\ input' = update(input)
    /\ updates' = updates + 1
    /\ UNCHANGED << state, heap, frame_callbacks, init_callbacks, cur, refs,
                    swaps, panic, regs, attempt, log, initRuns, inserted, events,
                    polled, assetVars, replacing >>

\* window.gl_swap_window()
Swap ==
    /\ pc = "frame"
    /\ ChainReturned
    /\ swaps' = swaps + 1
    /\ pc' = "poll"
    /\ UNCHANGED << state, heap, frame_callbacks, init_callbacks, todo, cur, refs,
                    tick, panic, regs, attempt, log, initRuns, inserted, events,
                    input, updates, polled, assetVars, replacing >>

\* The App goes out of scope (run returned, or a panic unwinds through the
\* frame that owns it): Drop for TypeMap.
Teardown ==
    /\ pc \in {"quit", "panicked"}
    /\ heap' = TypeMapDrop(state, heap)
    /\ state' = TypeMapNew
    /\ pc' = IF pc = "quit" THEN "exited" ELSE "unwound"
    /\ cur' = <<>>
    /\ todo' = <<>>
    /\ UNCHANGED << frame_callbacks, init_callbacks, refs, tick, swaps, panic,
                    regs, attempt, log, initRuns, inserted, events,
                    input, updates, polled, assetVars, replacing >>

Next ==
    \/ \E s \in States : AddState(s[1], s[2])
    \/ \E c \in StateCallbacks : AddStateWith(c)
    \/ \E c \in InitCallbacks : AddInitCallback(c)
    \/ \E c \in FrameCallbacks : AddFrameCallback(c)
    \/ AppInit
    \/ CallBegin
    \/ CallEnd
    \/ SetupDone
    \/ \E quit \in BOOLEAN : Poll(quit)
    \/ Swap
    \/ Teardown

Spec == Init /\ [][Next]_vars

(***************************************************************************)
(* The legality specification: one registration call, of any kind, with    *)
(* any signature of at most MaxArity parameters.                           *)
(***************************************************************************)
FirstCall == attempt = <<>>

LegalNext ==
    \/ \E sig \in Signatures : FirstCall /\ AddFrameCallback(Callback(sig, Unit, 0))
    \/ \E sig \in Signatures : FirstCall /\ AddInitCallback(Callback(sig, Unit, 0))
    \/ \E sig \in Signatures : FirstCall /\ AddStateWith(Callback(sig, Y, 0))

SpecLegal == Init /\ [][LegalNext]_vars

(***************************************************************************)
(* The store specification: a TypeMap of its own, any sequence of at most  *)
(* MaxInserts insert calls, then its drop.                                 *)
(***************************************************************************)
StoreTypes == {Counter, Y, InputT}

\* TypeMap::insert
Insert(T, v) ==
    /\ pc = "build"
    /\ Len(inserted) < MaxInserts
    /\ LET r == TypeMapInsert(state, heap, T, v)
       IN  /\ state' = r.inner
           /\ heap' = r.heap
    /\ inserted' = Append(inserted, << T, v >>)
    /\ UNCHANGED << frame_callbacks, init_callbacks, pc, todo, cur, refs, tick,
                    swaps, panic, regs, attempt, log, initRuns, events, input,
                    updates, polled, assetVars, replacing >>

\* Drop for TypeMap
Drop ==
    /\ pc = "build"
    /\ heap' = TypeMapDrop(state, heap)
    /\ state' = TypeMapNew
    /\ pc' = "dropped"
    /\ UNCHANGED << frame_callbacks, init_callbacks, todo, cur, refs, tick,
                    swaps, panic, regs, attempt, log, initRuns, inserted, events,
                    input, updates, polled, assetVars, replacing >>

StoreNext ==
    \/ \E T \in StoreTypes, v \in Vals : Insert(T, v)
    \/ Drop

SpecStore == Init /\ [][StoreNext]_vars

(***************************************************************************)
(* The loop specification: backend::run event by event, for the            *)
(* application of the counter scenario: add_state(Counter 0),              *)
(* add_frame_callback(incr), add_frame_callback(report).                   *)
(***************************************************************************)
CounterApp ==
    << Registration("state", NoCallback, Counter, 0),
       Registration("frame", incr, Unit, 0),
       Registration("frame", report, Unit, 0) >>

\* The App when the three builder calls have returned.
InitLoop ==
    /\ LET r == TypeMapInsert(TypeMapNew, <<>>, Counter, 0)
       IN  /\ state = r.inner
           /\ heap = r.heap
    /\ frame_callbacks = Compose(Compose(EmptyChain, Entry("frame", incr, 2)),
                                 Entry("frame", report, 3))
    /\ init_callbacks = EmptyChain
    /\ pc = "build"
    /\ todo = <<>>
    /\ cur = <<>>
    /\ refs = <<>>
    /\ tick = 0
    /\ swaps = 0
    /\ panic = NoPanic
    /\ regs = CounterApp
    /\ attempt = << CounterApp[3] >>
    /\ log = <<>>
    /\ initRuns = 0
    /\ inserted = <<>>
    /\ events = <<>>
    /\ input = InputNew
    /\ updates = 0
    /\ polled = <<>>
    /\ AssetsNew
    /\ replacing = NoReplace

\* The window system queues an event for the event pump.  The queue is
\* looked at by the poll loop only, so an event that arrives at another
\* moment is one that is in the queue when the next poll begins.
Arrive(event) ==
    /\ pc = "events"
    /\ Len(events) + Len(polled) < MaxEvents
    /\ events' = Append(events, event)
    /\ UNCHANGED << state, heap, frame_callbacks, init_callbacks, pc, todo, cur,
                    refs, tick, swaps, panic, regs, attempt, log, initRuns,
                    inserted, input, updates, polled, assetVars, replacing >>

\* The top of the loop: input.update().
InputUpdate ==
    /\ pc = "poll"
    /\ input' = update(input)
    /\ updates' = updates + 1
    /\ pc' = "events"
    /\ UNCHANGED << state, heap, frame_callbacks, init_callbacks, todo, cur, refs,
                    tick, swaps, panic, regs, attempt, log, initRuns, inserted,
                    events, polled, assetVars, replacing >>

\* Mutant: one event at most is taken per iteration (poll_event in an
\* `if let` instead of the loop over poll_iter), then the frame step follows.
PollEventOnce ==
    /\ pc = "events"
    /\ events # <<>>
    /\ LET event == Head(events)
       IN  /\ events' = Tail(events)
           /\ polled' = Append(polled, [event |-> event, update |-> updates])
           /\ IF event.type = "Quit"
              THEN /\ pc' = "quit"
                   /\ UNCHANGED << input, tick, todo >>
              ELSE /\ tick < MaxTicks
                   /\ pc' = "frame"
                   /\ tick' = tick + 1
                   /\ todo' = FrameChain
                   /\ input' = IF event.type \in {"KeyDown", "KeyUp"}
                               THEN HandleKey(input, event) ELSE input
    /\ UNCHANGED << state, heap, frame_callbacks, init_callbacks, cur, refs,
                    swaps, panic, regs, attempt, log, initRuns, inserted, updates,
                    assetVars, replacing >>

\* Mutant: Quit breaks out of the poll loop only (break instead of
\* break 'running), and the frame step follows.
PollEventBreakInner ==
    /\ pc = "events"
    /\ events # <<>>
    /\ LET event == Head(events)
       IN  /\ events' = Tail(events)
           /\ polled' = Append(polled, [event |-> event, update |-> updates])
           /\ IF event.type = "Quit"
              THEN /\ tick < MaxTicks
                   /\ pc' = "frame"
                   /\ tick' = tick + 1
                   /\ todo' = FrameChain
                   /\ UNCHANGED input
              ELSE /\ pc' = pc
                   /\ input' = IF event.type \in {"KeyDown", "KeyUp"}
                               THEN HandleKey(input, event) ELSE input
                   /\ UNCHANGED << todo, tick >>
    /\ UNCHANGED << state, heap, frame_callbacks, init_callbacks, cur, refs,
                    swaps, panic, regs, attempt, log, initRuns, inserted,
                    updates, assetVars, replacing >>

\* One round of `for event in event_pump.poll_iter()`: the next queued
\* event is taken and matched.
PollEvent ==
    /\ pc = "events"
    /\ events # <<>>
    /\ LET event == Head(events)
       IN  /\ events' = Tail(events)
           /\ polled' = Append(polled, [event |-> event, update |-> updates])
           /\ IF event.type = "Quit"
              THEN /\ pc' = "quit"
                   /\ UNCHANGED input
              ELSE /\ pc' = pc
                   /\ input' = IF event.type \in {"KeyDown", "KeyUp"}
                               THEN HandleKey(input, event) ELSE input
    /\ UNCHANGED << state, heap, frame_callbacks, init_callbacks, todo, cur, refs,
                    tick, swaps, panic, regs, attempt, log, initRuns, inserted,
                    updates, assetVars, replacing >>

\* poll_iter found the queue empty: (app.frame_callbacks.as_ref())(..).
InvokeFrameChain ==
    /\ pc = "events"
    /\ events = <<>>
    /\ tick < MaxTicks
    /\ pc' = "frame"
    /\ tick' = tick + 1
    /\ todo' = FrameChain
    /\ UNCHANGED << state, heap, frame_callbacks, init_callbacks, cur, refs,
                    swaps, panic, regs, attempt, log, initRuns, inserted, events,
                    input, updates, polled, assetVars, replacing >>

LoopNext ==
    \/ AppInit
    \/ SetupDone
    \/ \E event \in Events : Arrive(event)
    \/ InputUpdate
    \/ PollEvent
    \/ InvokeFrameChain
    \/ CallBegin
    \/ CallEnd
    \/ Swap
    \/ Teardown

SpecLoop == InitLoop /\ [][LoopNext]_vars

(***************************************************************************)
(* The ResourceManager (src/assets.rs): resources, their borrow flags and  *)
(* the locks get and get_mut hand out.                                     *)
(***************************************************************************)
Sprite == <<"pufferfish::graphics", "Sprite">>
Font == <<"pufferfish::text", "Font">>
ResourceTypes == {Sprite, Font}
\* The values a resource is given: what two loaders make of their bytes.
Datas == {"a", "b"}

\* A Resource is its borrow flag and its data: an Option<T>, <<>> for None.
\* Resource::new(None)
ResourceNew == [flag |-> 0, data |-> <<>>]

BorrowPanic(reason) ==
    [kind |-> "Borrow", reason |-> reason, tname |-> "", listing |-> <<>>]

\* Mutant: lock succeeds whatever the flag is.
lock_unchecked(res) == [panic |-> NoPanic, res |-> [res EXCEPT !.flag = @ + 1]]

\* Resource::lock
lock(res) ==
    IF res.flag >= 0
    THEN [panic |-> NoPanic, res |-> [res EXCEPT !.flag = @ + 1]]
    ELSE [panic |-> BorrowPanic("cannot immutably borrow resource; already mutably borrowed"),
          res |-> res]

\* Resource::lock_mut
lock_mut(res) ==
    CASE res.flag = 0 -> [panic |-> NoPanic, res |-> [res EXCEPT !.flag = -1]]
      [] res.flag < 0 ->
            [panic |-> BorrowPanic("cannot mutably borrow resource more than once"),
             res |-> res]
      [] OTHER ->
            [panic |-> BorrowPanic("cannot mutably borrow resource; already immutably borrowed"),
             res |-> res]

\* Mutant: unlock_mut counts down as unlock does.
unlock_mut_decrement(res) == [res EXCEPT !.flag = @ - 1]

\* Resource::unlock and Resource::unlock_mut
unlock(res) == [res EXCEPT !.flag = @ - 1]
unlock_mut(res) == [res EXCEPT !.flag = 0]

\* The indices storage holds for a type.
IndicesOf(st, T) == {k[2] : k \in {k \in DOMAIN st : k[1] = T}}

\* Mutant: the greatest index of any type is taken.
allocate_any_type(st, T) ==
    LET all == {k[2] : k \in DOMAIN st}
        idx == IF all = {} THEN 1
               ELSE (CHOOSE i \in all : \A j \in all : j <= i) + 1
    IN  [idx |-> idx, storage |-> (<< T, idx >> :> ResourceNew) @@ st]

\* ResourceManager::allocate: the index of the new resource and the storage
\* that holds it.
allocate(st, T) ==
    LET idx == IF IndicesOf(st, T) = {} THEN 1
               ELSE (CHOOSE i \in IndicesOf(st, T) :
                        \A j \in IndicesOf(st, T) : j <= i) + 1
    IN  [idx |-> idx, storage |-> (<< T, idx >> :> ResourceNew) @@ st]

\* lock, the assignment of Some(data), unlock: what ResourceManager::set and
\* the closure add_loader builds do to the resource.
Store(st, key, data) ==
    LET locked == lock(st[key])
    IN  IF locked.panic # NoPanic THEN [panic |-> locked.panic, storage |-> st]
        ELSE [panic |-> NoPanic,
              storage |-> [st EXCEPT ![key] =
                              unlock([locked.res EXCEPT !.data = << data >>])]]

NoGuards == [shared |-> 0, unique |-> 0]
Held == {key \in DOMAIN guards : guards[key] # NoGuards}
GuardCount(set) ==
    LET RECURSIVE Sum(_)
        Sum(ks) == IF ks = {} THEN 0
                   ELSE LET k == CHOOSE k \in ks : TRUE
                        IN  guards[k].shared + guards[k].unique + Sum(ks \ {k})
    IN  Sum(set)

\* A callback that holds the ResourceManager is running.
UsingResources == pc = "resources"

Allocate(T) ==
    /\ UsingResources
    /\ Cardinality(DOMAIN storage) < MaxResources
    /\ LET r == allocate(storage, T)
       IN  /\ storage' = r.storage
           /\ guards' = (<< T, r.idx >> :> NoGuards) @@ guards
           /\ call' = [op |-> "allocate", key |-> << T, r.idx >>, result |-> "handle"]
    /\ UNCHANGED << state, heap, frame_callbacks, init_callbacks, pc, todo, cur,
                    refs, tick, swaps, panic, regs, attempt, log, initRuns,
                    inserted, events, input, updates, polled, loaders, handles,
                    tasks, ready, alog, replacing >>

\* ResourceManager::set
Set(key, data) ==
    /\ UsingResources
    /\ key \in DOMAIN storage
    /\ LET r == Store(storage, key, data)
       IN  /\ storage' = r.storage
           /\ panic' = r.panic
           /\ pc' = IF r.panic = NoPanic THEN pc ELSE "panicked"
           /\ call' = [op |-> "set", key |-> key,
                       result |-> IF r.panic = NoPanic THEN "()" ELSE "panic"]
    /\ UNCHANGED << state, heap, frame_callbacks, init_callbacks, todo, cur,
                    refs, tick, swaps, regs, attempt, log, initRuns, inserted,
                    events, input, updates, polled, guards, loaders, handles,
                    tasks, ready, alog, replacing >>

\* ResourceManager::get
Get(key) ==
    /\ UsingResources
    /\ key \in DOMAIN storage
    /\ GuardCount(Held) < MaxGuards \/ lock(storage[key]).panic # NoPanic
    /\ LET locked == lock(storage[key])
       IN  /\ panic' = locked.panic
           /\ pc' = IF locked.panic = NoPanic THEN pc ELSE "panicked"
           /\ IF locked.panic # NoPanic
              THEN /\ call' = [op |-> "get", key |-> key, result |-> "panic"]
                   /\ UNCHANGED << storage, guards, replacing >>
              ELSE IF locked.res.data = <<>>
              THEN /\ storage' = [storage EXCEPT ![key] = unlock(locked.res)]
                   /\ call' = [op |-> "get", key |-> key, result |-> "None"]
                   /\ UNCHANGED guards
              ELSE /\ storage' = [storage EXCEPT ![key] = locked.res]
                   /\ guards' = [guards EXCEPT ![key].shared = @ + 1]
                   /\ call' = [op |-> "get", key |-> key, result |-> "Some"]
    /\ UNCHANGED << state, heap, frame_callbacks, init_callbacks, todo, cur,
                    refs, tick, swaps, regs, attempt, log, initRuns, inserted,
                    events, input, updates, polled, loaders, handles, tasks,
                    ready, alog, replacing >>

\* ResourceManager::get_mut
GetMut(key) ==
    /\ UsingResources
    /\ key \in DOMAIN storage
    /\ GuardCount(Held) < MaxGuards \/ lock_mut(storage[key]).panic # NoPanic
    /\ LET locked == lock_mut(storage[key])
       IN  /\ panic' = locked.panic
           /\ pc' = IF locked.panic = NoPanic THEN pc ELSE "panicked"
           /\ IF locked.panic # NoPanic
              THEN /\ call' = [op |-> "get_mut", key |-> key, result |-> "panic"]
                   /\ UNCHANGED << storage, guards, replacing >>
              ELSE IF locked.res.data = <<>>
              THEN /\ storage' = [storage EXCEPT ![key] = unlock_mut(locked.res)]
                   /\ call' = [op |-> "get_mut", key |-> key, result |-> "None"]
                   /\ UNCHANGED guards
              ELSE /\ storage' = [storage EXCEPT ![key] = locked.res]
                   /\ guards' = [guards EXCEPT ![key].unique = @ + 1]
                   /\ call' = [op |-> "get_mut", key |-> key, result |-> "Some"]
    /\ UNCHANGED << state, heap, frame_callbacks, init_callbacks, todo, cur,
                    refs, tick, swaps, regs, attempt, log, initRuns, inserted,
                    events, input, updates, polled, loaders, handles, tasks,
                    ready, alog, replacing >>

\* <ResourceRef as Drop>::drop
DropRef(key) ==
    /\ UsingResources
    /\ key \in DOMAIN guards
    /\ guards[key].shared > 0
    /\ guards' = [guards EXCEPT ![key].shared = @ - 1]
    /\ storage' = [storage EXCEPT ![key] = unlock(@)]
    /\ call' = [op |-> "drop", key |-> key, result |-> "()"]
    /\ UNCHANGED << state, heap, frame_callbacks, init_callbacks, pc, todo, cur,
                    refs, tick, swaps, panic, regs, attempt, log, initRuns,
                    inserted, events, input, updates, polled, loaders, handles,
                    tasks, ready, alog, replacing >>

\* <ResourceRefMut as Drop>::drop
DropRefMut(key) ==
    /\ UsingResources
    /\ key \in DOMAIN guards
    /\ guards[key].unique > 0
    /\ guards' = [guards EXCEPT ![key].unique = @ - 1]
    /\ storage' = [storage EXCEPT ![key] = unlock_mut(@)]
    /\ call' = [op |-> "drop_mut", key |-> key, result |-> "()"]
    /\ UNCHANGED << state, heap, frame_callbacks, init_callbacks, pc, todo, cur,
                    refs, tick, swaps, panic, regs, attempt, log, initRuns,
                    inserted, events, input, updates, polled, loaders, handles,
                    tasks, ready, alog, replacing >>

\* An assignment through <ResourceRefMut as DerefMut>::deref_mut.
WriteRefMut(key, data) ==
    /\ UsingResources
    /\ key \in DOMAIN guards
    /\ guards[key].unique > 0
    /\ storage' = [storage EXCEPT ![key].data = << data >>]
    /\ call' = [op |-> "deref_mut", key |-> key, result |-> "()"]
    /\ UNCHANGED << state, heap, frame_callbacks, init_callbacks, pc, todo, cur,
                    refs, tick, swaps, panic, regs, attempt, log, initRuns,
                    inserted, events, input, updates, polled, guards, loaders,
                    handles, tasks, ready, alog, replacing >>

\* The keys a handle of the model can have.
ResourceKeys == ResourceTypes \X (1 .. MaxResources)

ResNext ==
    \/ \E T \in ResourceTypes : Allocate(T)
    \/ \E key \in ResourceKeys, data \in Datas : Set(key, data)
    \/ \E key \in ResourceKeys : Get(key)
    \/ \E key \in ResourceKeys : GetMut(key)
    \/ \E key \in ResourceKeys : DropRef(key)
    \/ \E key \in ResourceKeys : DropRefMut(key)
    \/ \E key \in ResourceKeys, data \in Datas : WriteRefMut(key, data)

\* sdl::run has made the ResourceManager and a callback holds it.
InitRes ==
    /\ state = TypeMapNew
    /\ heap = <<>>
    /\ frame_callbacks = EmptyChain
    /\ init_callbacks = EmptyChain
    /\ pc = "resources"
    /\ todo = <<>>
    /\ cur = <<>>
    /\ refs = <<>>
    /\ tick = 0
    /\ swaps = 0
    /\ panic = NoPanic
    /\ regs = <<>>
    /\ attempt = <<>>
    /\ log = <<>>
    /\ initRuns = 0
    /\ inserted = <<>>
    /\ events = <<>>
    /\ input = InputNew
    /\ updates = 0
    /\ polled = <<>>
    /\ AssetsNew
    /\ replacing = NoReplace

SpecRes == InitRes /\ [][ResNext]_vars

(***************************************************************************)
(* Assets (src/assets.rs): loaders, the handles of the paths loaded and    *)
(* the file tasks update resolves.  A file task is the environment's: the  *)
(* set ready holds the tasks whose FileTask::poll reports completion.      *)
(***************************************************************************)
Paths == {"a.png", "b.ttf"}

\* FileTask::extension
extension(path) == IF path = "a.png" THEN "png" ELSE "ttf"

\* What the loader closure of the application makes of the bytes of a file.
LoaderValue(path) == IF path = "a.png" THEN "a" ELSE "b"

\* The registrations of App::init: a Sprite loader for png, a Font loader
\* for ttf.
LoaderKeys == {<< Sprite, "png" >>, << Font, "ttf" >>}

\* What the application loads: two paths as one type, one path as two
\* types, and a path whose extension its type has no loader for.
Loadable == {<< Sprite, "a.png" >>, << Sprite, "b.ttf" >>, << Font, "b.ttf" >>}

\* FileTaskResolve { task: fs.read(p), type_id, idx }
FileTaskResolve(T, idx, path) == [type_id |-> T, idx |-> idx, path |-> path]
TaskKey(task) == << task.type_id, task.idx >>

\* loaders.get_mut(&key).unwrap() found no entry.
NoLoader ==
    [kind |-> "NoLoader", reason |-> "called Option::unwrap() on a None value",
     tname |-> "", listing |-> <<>>]

\* An entry of alog.
AssetEvent(op, T, path, idx) == [op |-> op, T |-> T, path |-> path, idx |-> idx]
AssetEvents(op) == SelectSeq(alog, LAMBDA e : e.op = op)

\* The part of the asset system a poll works on, with the polls and the
\* loader invocations made since the call began.
Polling(st, ts) ==
    [storage |-> st, tasks |-> ts, panic |-> NoPanic, polls |-> <<>>,
     invoked |-> <<>>]

\* FileTaskResolve::poll; complete is what task.poll() returned.  The
\* closure add_loader built calls the loader of the application, then
\* stores the value.
poll(task, complete, a) ==
    LET polled_ == [a EXCEPT !.polls = Append(@, task)]
    IN  IF ~complete THEN polled_
        ELSE IF << task.type_id, extension(task.path) >> \notin loaders
        THEN [polled_ EXCEPT !.panic = NoLoader]
        ELSE LET r == Store(a.storage, TaskKey(task), LoaderValue(task.path))
             IN  [polled_ EXCEPT !.storage = r.storage, !.panic = r.panic,
                                 !.invoked = Append(@, task)]

\* Vec::remove
remove(vec, i) == SubSeq(vec, 1, i - 1) \o SubSeq(vec, i + 1, Len(vec))

RECURSIVE UpdateFromSkip(_, _)
\* Mutant: i advances after a removal too.
UpdateFromSkip(i, a) ==
    IF a.panic # NoPanic \/ i > Len(a.tasks) THEN a
    ELSE LET task == a.tasks[i]
             complete == TaskKey(task) \in ready
             b == poll(task, complete, a)
         IN  IF complete
             THEN UpdateFromSkip(i + 1, [b EXCEPT !.tasks = remove(@, i)])
             ELSE UpdateFromSkip(i + 1, b)

RECURSIVE UpdateFrom(_, _)
\* The loop of Assets::update from index i on (i counts from 1).
UpdateFrom(i, a) ==
    IF a.panic # NoPanic \/ i > Len(a.tasks) THEN a
    ELSE LET task == a.tasks[i]
             complete == TaskKey(task) \in ready
             b == poll(task, complete, a)
         IN  IF complete
             THEN UpdateFrom(i, [b EXCEPT !.tasks = remove(@, i)])
             ELSE UpdateFrom(i + 1, b)

\* The alog entries of the loader invocations a call made.
RECURSIVE LoaderEvents(_)
LoaderEvents(invoked) ==
    IF invoked = <<>> THEN <<>>
    ELSE << AssetEvent("loader", Head(invoked).type_id, Head(invoked).path,
                       Head(invoked).idx) >> \o LoaderEvents(Tail(invoked))

\* A callback that holds the Assets is running.
UsingAssets == pc = "assets"

\* Assets::add_loader
AddLoader(T, extensions) ==
    /\ UsingAssets
    /\ loaders' = loaders \cup {<< T, e >> : e \in extensions}
    /\ loaders' # loaders
    /\ call' = [op |-> "add_loader", key |-> << T, 0 >>, result |-> "()"]
    /\ UNCHANGED << state, heap, frame_callbacks, init_callbacks, pc, todo, cur,
                    refs, tick, swaps, panic, regs, attempt, log, initRuns,
                    inserted, events, input, updates, polled, storage, guards,
                    handles, tasks, ready, alog, replacing >>

\* Mutant: load does not look the path up.
LoadAlways(T, path, complete) ==
    /\ UsingAssets
    /\ Len(AssetEvents("load")) < MaxLoads
    /\ LET r == allocate(storage, T)
           task == FileTaskResolve(T, r.idx, path)
           a == poll(task, complete, Polling(r.storage, tasks))
           did == << AssetEvent("allocate", T, path, r.idx),
                     AssetEvent("read", T, path, r.idx) >>
                    \o LoaderEvents(a.invoked)
       IN  /\ storage' = a.storage
           /\ guards' = (<< T, r.idx >> :> NoGuards) @@ guards
           /\ panic' = a.panic
           /\ IF a.panic # NoPanic
              THEN /\ pc' = "panicked"
                   /\ alog' = alog \o did
                   /\ call' = [op |-> "load", key |-> << T, r.idx >>,
                               result |-> "panic"]
                   /\ UNCHANGED << tasks, handles, replacing >>
              ELSE /\ pc' = pc
                   /\ tasks' = IF complete THEN tasks ELSE Append(tasks, task)
                   /\ handles' = (<< T, path >> :> r.idx) @@ handles
                   /\ alog' = alog \o did
                                \o << AssetEvent("load", T, path, r.idx) >>
                   /\ call' = [op |-> "load", key |-> << T, r.idx >>,
                               result |-> "handle"]
    /\ UNCHANGED << state, heap, frame_callbacks, init_callbacks, todo, cur,
                    refs, tick, swaps, regs, attempt, log, initRuns, inserted,
                    events, input, updates, polled, loaders, ready, replacing >>

\* Assets::load; complete is what the first poll of the file task returns.
Load(T, path, complete) ==
    /\ UsingAssets
    /\ Len(AssetEvents("load")) < MaxLoads
    /\ IF << T, path >> \in DOMAIN handles
       THEN /\ alog' = Append(alog, AssetEvent("load", T, path, handles[<< T, path >>]))
            /\ call' = [op |-> "load", key |-> << T, handles[<< T, path >>] >>,
                        result |-> "handle"]
            /\ UNCHANGED << storage, guards, panic, pc, tasks, handles, replacing >>
       ELSE LET r == allocate(storage, T)
                task == FileTaskResolve(T, r.idx, path)
                a == poll(task, complete, Polling(r.storage, tasks))
                did == << AssetEvent("allocate", T, path, r.idx),
                          AssetEvent("read", T, path, r.idx) >>
                         \o LoaderEvents(a.invoked)
            IN  /\ storage' = a.storage
                /\ guards' = (<< T, r.idx >> :> NoGuards) @@ guards
                /\ panic' = a.panic
                /\ IF a.panic # NoPanic
                   THEN /\ pc' = "panicked"
                        /\ alog' = alog \o did
                        /\ call' = [op |-> "load", key |-> << T, r.idx >>,
                                    result |-> "panic"]
                        /\ UNCHANGED << tasks, handles, replacing >>
                   ELSE /\ pc' = pc
                        /\ tasks' = IF complete THEN tasks ELSE Append(tasks, task)
                        /\ handles' = (<< T, path >> :> r.idx) @@ handles
                        /\ alog' = alog \o did
                                     \o << AssetEvent("load", T, path, r.idx) >>
                        /\ call' = [op |-> "load", key |-> << T, r.idx >>,
                                    result |-> "handle"]
    /\ UNCHANGED << state, heap, frame_callbacks, init_callbacks, todo, cur,
                    refs, tick, swaps, regs, attempt, log, initRuns, inserted,
                    events, input, updates, polled, loaders, ready, replacing >>

\* The file system finishes reading the file of a pending task.
FileComplete(key) ==
    /\ \E i \in 1 .. Len(tasks) : TaskKey(tasks[i]) = key
    /\ key \notin ready
    /\ pc \notin {"panicked", "unwound", "exited"}
    /\ ready' = ready \cup {key}
    /\ UNCHANGED << state, heap, frame_callbacks, init_callbacks, pc, todo, cur,
                    refs, tick, swaps, panic, regs, attempt, log, initRuns,
                    inserted, events, input, updates, polled, storage, guards,
                    loaders, handles, tasks, call, alog, replacing >>

\* Assets::update
Update ==
    /\ UsingAssets
    /\ Len(AssetEvents("update")) < MaxAssetUpdates
    /\ LET a == UpdateFrom(1, Polling(storage, tasks))
       IN  /\ storage' = a.storage
           /\ tasks' = a.tasks
           /\ panic' = a.panic
           /\ pc' = IF a.panic = NoPanic THEN pc ELSE "panicked"
           /\ alog' = (alog \o << AssetEvent("update", <<>>, "", 0) >>)
                        \o LoaderEvents(a.invoked)
           /\ call' = [op |-> "update", key |-> a.polls,
                       result |-> IF a.panic = NoPanic THEN "()" ELSE "panic"]
    /\ UNCHANGED << state, heap, frame_callbacks, init_callbacks, todo, cur,
                    refs, tick, swaps, regs, attempt, log, initRuns, inserted,
                    events, input, updates, polled, guards, loaders, handles,
                    ready, replacing >>

AssetsNext ==
    \/ \E key \in LoaderKeys : AddLoader(key[1], {key[2]})
    \/ \E asset \in Loadable, complete \in BOOLEAN :
            Load(asset[1], asset[2], complete)
    \/ \E i \in 1 .. Len(tasks) : FileComplete(TaskKey(tasks[i]))
    \/ Update

\* App::init has stored the Assets and a callback holds it.
InitAssets ==
    /\ state = TypeMapNew
    /\ heap = <<>>
    /\ frame_callbacks = EmptyChain
    /\ init_callbacks = EmptyChain
    /\ pc = "assets"
    /\ todo = <<>>
    /\ cur = <<>>
    /\ refs = <<>>
    /\ tick = 0
    /\ swaps = 0
    /\ panic = NoPanic
    /\ regs = <<>>
    /\ attempt = <<>>
    /\ log = <<>>
    /\ initRuns = 0
    /\ inserted = <<>>
    /\ events = <<>>
    /\ input = InputNew
    /\ updates = 0
    /\ polled = <<>>
    /\ AssetsNew
    /\ replacing = NoReplace

SpecAssets == InitAssets /\ [][AssetsNext]_vars

(***************************************************************************)
(* The frame specification: App::run for an application whose setup        *)
(* callback registers loaders and loads assets and whose per-frame         *)
(* callback gets the resources, with the loop of backend::run taken an     *)
(* iteration at a time.  The counters the other specifications keep are    *)
(* left alone, so the loop can go round for ever.                          *)
(***************************************************************************)
\* The setup callback returns and run enters its loop.
SetupReturn ==
    /\ pc = "assets"
    /\ pc' = "poll"
    /\ UNCHANGED << state, heap, frame_callbacks, init_callbacks, todo, cur,
                    refs, tick, swaps, panic, regs, attempt, log, initRuns,
                    inserted, events, input, updates, polled, assetVars, replacing >>

\* An iteration of the loop up to the invocation of the per-frame chain:
\* input.update(), the poll loop (no event is queued), and the callback,
\* which holds the ResourceManager, begins.
BeginFrame ==
    /\ pc = "poll"
    /\ input' = update(input)
    /\ pc' = "resources"
    /\ UNCHANGED << state, heap, frame_callbacks, init_callbacks, todo, cur,
                    refs, tick, swaps, panic, regs, attempt, log, initRuns,
                    inserted, events, updates, polled, assetVars, replacing >>

\* The callback returns, its locks dropped, and the window is swapped.
EndFrame ==
    /\ pc = "resources"
    /\ Held = {}
    /\ pc' = "poll"
    /\ UNCHANGED << state, heap, frame_callbacks, init_callbacks, todo, cur,
                    refs, tick, swaps, panic, regs, attempt, log, initRuns,
                    inserted, events, input, updates, polled, assetVars, replacing >>

\* The poll loop finds Event::Quit.
QuitFrame ==
    /\ pc = "poll"
    /\ input' = update(input)
    /\ pc' = "quit"
    /\ UNCHANGED << state, heap, frame_callbacks, init_callbacks, todo, cur,
                    refs, tick, swaps, panic, regs, attempt, log, initRuns,
                    inserted, events, updates, polled, assetVars, replacing >>

FramesNext ==
    \/ \E key \in LoaderKeys : AddLoader(key[1], {key[2]})
    \/ \E asset \in Loadable, complete \in BOOLEAN :
            Load(asset[1], asset[2], complete)
    \/ \E i \in 1 .. Len(tasks) : FileComplete(TaskKey(tasks[i]))
    \/ SetupReturn
    \/ BeginFrame
    \/ \E key \in DOMAIN storage : Get(key)
    \/ \E key \in DOMAIN storage : DropRef(key)
    \/ EndFrame
    \/ QuitFrame
    \/ Teardown

SpecFrames == InitAssets /\ [][FramesNext]_vars

\* The loop runs on: a callback that began returns, and an iteration that
\* can begin does.
SpecLive ==
    /\ SpecFrames
    /\ WF_vars(SetupReturn)
    /\ WF_vars(BeginFrame)
    /\ WF_vars(EndFrame)

(***************************************************************************)
(* The replace specification: the builder calls with util::replace_with    *)
(* taken statement by statement, for the closures the registrations pass   *)
(* and for a closure that panics.                                          *)
(***************************************************************************)
\* What dest holds between ptr::read and ptr::write: a value that has been
\* moved out of it.
MovedOut == << "moved out" >>

\* The argument f of replace_with: the closure of a registration, which
\* boxes the composition of the old chain and the entry, or one that
\* panics.
ComposeWith(entry) == [panics |-> FALSE, entry |-> entry]
PanickingClosure == [panics |-> TRUE, entry |-> Entry("frame", NoCallback, 0)]

\* The chain a registration kind replaces.
Dest(kind) == IF kind = "frame" THEN frame_callbacks ELSE init_callbacks

\* replace_with(&mut dest, f) is called.
ReplaceWith(kind, f, reg) ==
    /\ pc' = "replace"
    /\ replacing' = [kind |-> kind, f |-> f, was |-> << Dest(kind) >>,
                     old |-> <<>>, new |-> <<>>, uses |-> 0, reg |-> reg]

\* F::assert_legal() of a registration, and the call of replace_with that
\* follows when it returns.
RegisterCheck(kind, callback) ==
    LET legal == assert_legal(callback.sig)
        registration == Registration(kind, callback, callback.out, 0)
    IN  /\ Building
        /\ Implemented(callback.sig)
        /\ attempt' = << registration >>
        /\ IF legal.kind # "none"
           THEN /\ pc' = "panicked"
                /\ panic' = legal
                /\ UNCHANGED replacing
           ELSE /\ ReplaceWith(kind, ComposeWith(Entry(kind, callback, Len(regs) + 1)),
                               << registration >>)
                /\ UNCHANGED panic
        /\ UNCHANGED << state, heap, frame_callbacks, init_callbacks, todo, cur,
                        refs, tick, swaps, regs, log, initRuns, inserted,
                        events, input, updates, polled, assetVars >>

\* replace_with called with a closure that panics.
ReplaceWithPanicking(kind) ==
    /\ Building
    /\ ReplaceWith(kind, PanickingClosure, <<>>)
    /\ UNCHANGED << state, heap, frame_callbacks, init_callbacks, todo, cur,
                    refs, tick, swaps, panic, regs, attempt, log, initRuns,
                    inserted, events, input, updates, polled, assetVars >>

\* let old = std::ptr::read(dest); let abort = AbortOnDrop;
ReplaceRead ==
    /\ pc = "replace"
    /\ replacing' = [replacing EXCEPT !.old = << Dest(replacing.kind) >>]
    /\ frame_callbacks' = IF replacing.kind = "frame" THEN MovedOut
                          ELSE frame_callbacks
    /\ init_callbacks' = IF replacing.kind = "frame" THEN init_callbacks
                         ELSE MovedOut
    /\ pc' = "apply"
    /\ UNCHANGED << state, heap, todo, cur, refs, tick, swaps, panic, regs,
                    attempt, log, initRuns, inserted, events, input, updates,
                    polled, assetVars >>

\* let new = f(old);
ReplaceApply ==
    /\ pc = "apply"
    /\ IF replacing.f.panics
       THEN /\ replacing' = [replacing EXCEPT !.old = <<>>, !.uses = @ + 1]
            /\ pc' = "unwinding"
       ELSE /\ replacing' = [replacing EXCEPT
                                !.old = <<>>,
                                !.uses = @ + 1,
                                !.new = << Compose(replacing.old[1], replacing.f.entry) >>]
            /\ pc' = "write"
    /\ UNCHANGED << state, heap, frame_callbacks, init_callbacks, todo, cur,
                    refs, tick, swaps, panic, regs, attempt, log, initRuns,
                    inserted, events, input, updates, polled, assetVars >>

\* std::mem::forget(abort); std::ptr::write(dest, new); and the builder
\* call returns.
ReplaceWrite ==
    /\ pc = "write"
    /\ frame_callbacks' = IF replacing.kind = "frame" THEN replacing.new[1]
                          ELSE frame_callbacks
    /\ init_callbacks' = IF replacing.kind = "frame" THEN init_callbacks
                         ELSE replacing.new[1]
    /\ regs' = regs \o replacing.reg
    /\ replacing' = NoReplace
    /\ pc' = "build"
    /\ UNCHANGED << state, heap, todo, cur, refs, tick, swaps, panic, attempt,
                    log, initRuns, inserted, events, input, updates, polled,
                    assetVars >>

\* Mutant: there is no AbortOnDrop, the panic of f unwinds out of
\* replace_with.
ReplaceUnwindNoGuard ==
    /\ pc = "unwinding"
    /\ pc' = "panicked"
    /\ UNCHANGED << state, heap, frame_callbacks, init_callbacks, todo, cur,
                    refs, tick, swaps, panic, regs, attempt, log, initRuns,
                    inserted, events, input, updates, polled, assetVars,
                    replacing >>

\* The panic of f unwinds through replace_with: <AbortOnDrop as Drop>::drop.
ReplaceUnwind ==
    /\ pc = "unwinding"
    /\ pc' = "aborted"
    /\ UNCHANGED << state, heap, frame_callbacks, init_callbacks, todo, cur,
                    refs, tick, swaps, panic, regs, attempt, log, initRuns,
                    inserted, events, input, updates, polled, assetVars,
                    replacing >>

ReplaceNext ==
    \/ \E c \in FrameCallbacks : RegisterCheck("frame", c)
    \/ \E c \in InitCallbacks : RegisterCheck("init", c)
    \/ \E c \in StateCallbacks : RegisterCheck("state_with", c)
    \/ \E kind \in {"frame", "init"} : ReplaceWithPanicking(kind)
    \/ ReplaceRead
    \/ ReplaceApply
    \/ ReplaceWrite
    \/ ReplaceUnwind

SpecReplace == Init /\ [][ReplaceNext]_vars

(***************************************************************************)
(* Properties.                                                             *)
(***************************************************************************)
\* Two distinct parameter positions hold the same type and one of the two
\* is exclusive.
Conflict(sig) ==
    \E i, j \in 1 .. Len(sig) :
        /\ i # j
        /\ sig[i].tid = sig[j].tid
        /\ sig[i].unique \/ sig[j].unique

RECURSIVE Members(_)
\* The entries a chain was composed of.
Members(chain) ==
    IF chain = EmptyChain THEN {} ELSE Members(chain[1]) \cup {chain[2]}

\* C1: a registration call (add_frame_callback, add_init_callback or
\* add_state_with) panics with an illegal-signature message if and only if
\* two distinct parameters of its callback have the same type and at least
\* one of the two is exclusive; every other signature, repeated shared
\* types included, is accepted and its callback is the one member of the
\* chain it was registered into.
C1_PanicsIffConflict ==
    attempt # <<>> =>
        LET a == attempt[1]
            chain == IF a.kind = "frame" THEN frame_callbacks ELSE init_callbacks
        IN  /\ (pc = "panicked" /\ panic.kind = "IllegalSignature")
                    <=> Conflict(a.callback.sig)
            /\ ~Conflict(a.callback.sig) =>
                    /\ pc = "build"
                    /\ panic = NoPanic
                    /\ regs = << a >>
                    /\ Members(chain) = {Entry(a.kind, a.callback, 1)}

\* A call with the signature (&Counter, &Y, &mut Counter), whose conflicting
\* parameters are not neighbours, has panicked.
C1_Witness ==
    /\ attempt # <<>>
    /\ attempt[1].callback.sig = << Shared(Counter), Shared(Y), Exclusive(Counter) >>
    /\ pc = "panicked"
    /\ panic.reason = "both unique and shared references to"

\* C2: while a callback is being invoked, two of the references it was
\* handed point at the same value (are references to the same type) only
\* if both are shared; every reference points at the live value the store
\* holds for its type; and no reference outlives the invocation.
C2_NoAliasing ==
    /\ \A i, j \in 1 .. Len(refs) :
            (i # j /\ (refs[i].tid = refs[j].tid \/ refs[i].ptr = refs[j].ptr))
                => (~refs[i].unique /\ ~refs[j].unique)
    /\ \A i \in 1 .. Len(refs) :
            /\ refs[i].tid \in DOMAIN state
            /\ state[refs[i].tid] = refs[i].ptr
            /\ heap[refs[i].ptr].tid = refs[i].tid
            /\ heap[refs[i].ptr].freed = 0
    /\ refs # <<>> =>
            /\ cur # <<>>
            /\ Running
            /\ Len(refs) = Len(cur[1].callback.sig)
            /\ \A i \in 1 .. Len(refs) :
                    /\ refs[i].tid = cur[1].callback.sig[i].tid
                    /\ refs[i].unique = cur[1].callback.sig[i].unique

\* A frame callback holds two shared references to the same Counter.
C2_Witness ==
    /\ pc = "frame"
    /\ Len(refs) = 2
    /\ refs[1].ptr = refs[2].ptr
    /\ ~refs[1].unique /\ ~refs[2].unique

\* C3: the step in which a registration call fails its legality check
\* changes neither chain nor the store, registers nothing and invokes
\* nothing; and after such a failure no callback has ever been invoked and
\* no member of a chain has an illegal signature.
C3_FailedCheckTouchesNothing ==
    /\ [][(pc = "build" /\ pc' = "panicked") =>
            /\ panic'.kind = "IllegalSignature"
            /\ Conflict(attempt'[1].callback.sig)
            /\ frame_callbacks' = frame_callbacks
            /\ init_callbacks' = init_callbacks
            /\ state' = state
            /\ heap' = heap
            /\ regs' = regs
            /\ log' = log
            /\ cur' = <<>> /\ refs' = <<>> /\ todo' = <<>>]_vars
    /\ [](panic.kind = "IllegalSignature" =>
            /\ log = <<>> /\ cur = <<>> /\ refs = <<>> /\ initRuns = 0
            /\ attempt[1].callback \notin
                   {e.callback : e \in Members(frame_callbacks) \cup Members(init_callbacks)})
    /\ [](\A e \in Members(frame_callbacks) \cup Members(init_callbacks) :
            ~Conflict(e.callback.sig))

\* A registration has failed its check after two others had succeeded.
C3_Witness ==
    /\ pc = "panicked"
    /\ panic.kind = "IllegalSignature"
    /\ Len(regs) = 2
    /\ frame_callbacks # EmptyChain
    /\ init_callbacks # EmptyChain

\* The registration numbers of the registrations of the given kinds, in
\* registration order.
RegsOf(kinds) ==
    SelectSeq([i \in 1 .. Len(regs) |-> i], LAMBDA i : regs[i].kind \in kinds)

\* The invocations a chain ("init" for setup, "frame") has completed.
Calls(chain) == SelectSeq(log, LAMBDA e : e.chain = chain)

SetupKinds == {"init", "state_with"}

\* C4: with frame callbacks c1..ck registered in that order, the k-th
\* completed invocation of the per-frame chain's callbacks is that of
\* c((k-1) mod n + 1) in tick (k-1) div n + 1; a callback that is running
\* is the next of that sequence, so the one before it has returned; and
\* when N ticks have completed each callback has run exactly N times.
C4_FrameOrder ==
    LET F == RegsOf({"frame"})
        done == Calls("frame")
    IN  /\ \A k \in 1 .. Len(done) :
                /\ Len(F) > 0
                /\ done[k].reg = F[((k - 1) % Len(F)) + 1]
                /\ done[k].tick = ((k - 1) \div Len(F)) + 1
        /\ (pc = "frame" /\ cur # <<>>) =>
                /\ cur[1].reg = F[(Len(done) % Len(F)) + 1]
                /\ tick = (Len(done) \div Len(F)) + 1
        /\ pc = "poll" => (Len(done) = tick * Len(F) /\ swaps = tick)

\* Two ticks have completed with three frame callbacks registered.
C4_Witness ==
    /\ pc = "poll"
    /\ tick = 2
    /\ swaps = 2
    /\ Len(RegsOf({"frame"})) = 3
    /\ Len(Calls("frame")) = 6

\* C5: the setup chain is invoked at most once, exactly once before the
\* event loop is entered; its callbacks run only in that invocation, each
\* at most once, and never in a tick; and when the per-frame chain is
\* first invoked every setup callback has returned.
C5_SetupOnceBeforeFrames ==
    /\ initRuns <= 1
    /\ pc = "build" => initRuns = 0
    /\ pc \in {"init", "poll", "frame", "quit", "exited"} => initRuns = 1
    /\ \A i \in 1 .. Len(log) :
            /\ (log[i].kind \in SetupKinds) <=> (log[i].chain = "init")
            /\ log[i].chain = "init" => log[i].tick = 0
            /\ log[i].chain = "frame" => log[i].tick >= 1
            /\ \A j \in 1 .. Len(log) :
                    (i < j /\ log[i].chain = "frame") => log[j].chain = "frame"
            /\ \A j \in 1 .. Len(log) :
                    (i # j /\ log[i].kind \in SetupKinds) => log[i].reg # log[j].reg
    /\ tick >= 1 =>
            \A r \in 1 .. Len(regs) :
                regs[r].kind \in SetupKinds =>
                    \E i \in 1 .. Len(log) : log[i].reg = r /\ log[i].chain = "init"
    /\ (pc = "init" \/ tick = 0) => Calls("frame") = <<>>

\* The second tick has completed in an application with a setup callback
\* and a frame callback.
C5_Witness ==
    /\ pc = "poll"
    /\ tick = 2
    /\ Len(RegsOf(SetupKinds)) >= 1
    /\ Len(RegsOf({"frame"})) >= 1

\* C6: the callbacks of add_init_callback and add_state_with run in the
\* order of the registration calls, whatever their kinds: the invocations
\* the setup chain has completed are a prefix of the setup registrations
\* in registration order, and all of them once the setup chain returned.
C6_SetupOrder ==
    LET S == RegsOf(SetupKinds)
        done == Calls("init")
    IN  /\ Len(done) <= Len(S)
        /\ \A k \in 1 .. Len(done) : done[k].reg = S[k]
        /\ (pc = "init" /\ cur # <<>>) => cur[1].reg = S[Len(done) + 1]
        /\ pc \in {"poll", "frame", "quit", "exited"} => Len(done) = Len(S)

\* The setup chain of an init callback, a state-derivation callback and
\* another init callback, registered in that order, has returned.
C6_Witness ==
    /\ pc = "poll"
    /\ Len(regs) = 3
    /\ regs[1].kind = "init"
    /\ regs[2].kind = "state_with"
    /\ regs[3].kind = "init"
    /\ Len(Calls("init")) = 3

\* The callback of a completed invocation.
CallbackOf(e) == regs[e.reg].callback

\* A completed invocation wrote the store's value of type T: it returned it
\* to add_state_with, or held it exclusively.
Wrote(e, T) ==
    \/ e.kind = "state_with" /\ CallbackOf(e).out = T
    \/ \E p \in 1 .. Len(CallbackOf(e).sig) :
            CallbackOf(e).sig[p].tid = T /\ CallbackOf(e).sig[p].unique

\* No invocation from the one after log[i] up to the one before log[j]
\* wrote T.
Untouched(T, i, j) == \A k \in (i + 1) .. (j - 1) : ~Wrote(log[k], T)

\* C7: once a state-derivation callback has returned a value r of type T,
\* the store holds r under T from that moment on, so the callback invoked
\* next is handed r, every later setup or frame callback with a parameter
\* of type T reads r, and none fails because T is missing, until a later
\* callback writes T again.
C7_DerivedStateVisible ==
    \A i \in 1 .. Len(log) :
        log[i].kind = "state_with" =>
            LET T == CallbackOf(log[i]).out
                r == log[i].ret
            IN  /\ \A j \in (i + 1) .. Len(log) :
                        Untouched(T, i, j) =>
                            \A p \in 1 .. Len(CallbackOf(log[j]).sig) :
                                CallbackOf(log[j]).sig[p].tid = T => log[j].seen[p] = r
                /\ (Untouched(T, i, Len(log) + 1) /\ pc \notin {"exited", "unwound"}) =>
                        /\ T \in DOMAIN state
                        /\ heap[state[T]].val = r
                        /\ heap[state[T]].freed = 0
                        /\ \A p \in 1 .. Len(refs) :
                                refs[p].tid = T => heap[refs[p].ptr].val = r
                /\ (pc = "panicked" /\ panic.kind = "MissingType") => T \in DOMAIN state

\* add_state(Counter 0), add_state_with(|c: &Counter| Y(c + 1)) and a frame
\* callback reading &Y: the frame callback has read Y = 1 in the first tick.
C7_Witness ==
    /\ Len(regs) = 3
    /\ regs[1].kind = "state" /\ regs[1].T = Counter /\ regs[1].v = 0
    /\ regs[2].kind = "state_with" /\ regs[2].callback = derive_y
    /\ regs[3].kind = "frame" /\ regs[3].callback = read_y
    /\ \E i \in 1 .. Len(log) :
            log[i].reg = 3 /\ log[i].tick = 1 /\ log[i].seen = << 1 >>

\* The value a state registration supplied: the value given to add_state,
\* or the value the callback of add_state_with returned.
Supplied(r) ==
    IF regs[r].kind = "state" THEN regs[r].v
    ELSE LET i == CHOOSE i \in 1 .. Len(log) : log[i].reg = r IN log[i].ret

Max(S) == CHOOSE x \in S : \A y \in S : y <= x

Min(S) == CHOOSE x \in S : \A y \in S : x <= y

\* The first frame callback of the first tick has been handed its arguments.
FirstFrameCall == pc = "frame" /\ tick = 1 /\ cur # <<>> /\ Calls("frame") = <<>>

\* No setup callback takes T exclusively.
NotMutatedInSetup(T) ==
    \A r \in 1 .. Len(regs) :
        regs[r].kind \in SetupKinds =>
            \A p \in 1 .. Len(regs[r].callback.sig) :
                ~(regs[r].callback.sig[p].tid = T /\ regs[r].callback.sig[p].unique)

\* C10 as claimed: the value of T the first frame callback is handed is the
\* one supplied by the last registration of T, be it add_state or
\* add_state_with (T not a type of the engine's resources and not written by
\* a setup callback's exclusive parameter).
C10_LastRegistrationWins ==
    FirstFrameCall =>
        \A p \in 1 .. Len(refs) :
            LET T == refs[p].tid
                R == {r \in 1 .. Len(regs) :
                        regs[r].kind \in {"state", "state_with"} /\ regs[r].T = T}
            IN  (R # {} /\ T \notin EngineTypes /\ NotMutatedInSetup(T)) =>
                    heap[refs[p].ptr].val = Supplied(Max(R))

\* C10 amended: add_state inserts at the registration call, add_state_with
\* when the setup chain runs; so the value of T the first frame callback is
\* handed is the one returned by the last-registered add_state_with of T if
\* there is one, whatever add_state calls came after it, and otherwise the
\* one given to the last add_state of T (T not a type of the engine's
\* resources and not written by a setup callback's exclusive parameter).
C10_DerivedStateOverridesGiven ==
    FirstFrameCall =>
        \A p \in 1 .. Len(refs) :
            LET T == refs[p].tid
                W == {r \in 1 .. Len(regs) : regs[r].kind = "state_with" /\ regs[r].T = T}
                G == {r \in 1 .. Len(regs) : regs[r].kind = "state" /\ regs[r].T = T}
            IN  (W \cup G # {} /\ T \notin EngineTypes /\ NotMutatedInSetup(T)) =>
                    heap[refs[p].ptr].val = Supplied(IF W # {} THEN Max(W) ELSE Max(G))

\* add_state_with(|_: &Input| Counter(1)), then add_state(Counter(0)), then
\* a frame callback reading &Counter: it is handed 1 in the first tick.
C10_Witness ==
    /\ FirstFrameCall
    /\ Len(regs) = 3
    /\ regs[1].kind = "state_with" /\ regs[1].callback = make_counter
    /\ regs[2].kind = "state" /\ regs[2].T = Counter /\ regs[2].v = 0
    /\ regs[3].callback = report
    /\ heap[refs[1].ptr].val = 1

\* The pointers the map holds.
Live == {state[T] : T \in DOMAIN state}

\* C8: while the TypeMap lives, a type has a value exactly if it was
\* inserted, get returns the live box holding the value of the most recent
\* insert of that type (whatever was inserted for other types since), and
\* at most one unreleased box per type exists.
C8_GetReturnsLastInsert ==
    pc = "build" =>
        \A T \in StoreTypes :
            LET I == {i \in 1 .. Len(inserted) : inserted[i][1] = T}
                got == TypeMapGet(state, T)
            IN  /\ (got = <<>>) <=> (I = {})
                /\ I # {} =>
                        /\ heap[got[1]].val = inserted[Max(I)][2]
                        /\ heap[got[1]].tid = T
                        /\ heap[got[1]].freed = 0
                /\ Cardinality({p \in 1 .. Len(heap) :
                                    heap[p].tid = T /\ heap[p].freed = 0}) <= 1

\* Counter 1, Y 2, Counter 0 were inserted in that order: get::<Counter>
\* returns 0 and get::<Y> still returns 2.
C8_Witness ==
    /\ pc = "build"
    /\ inserted = << << Counter, 1 >>, << Y, 2 >>, << Counter, 0 >> >>
    /\ heap[TypeMapGet(state, Counter)[1]].val = 0
    /\ heap[TypeMapGet(state, Y)[1]].val = 2

\* C9: every insert allocated one box; no box is ever released twice; while
\* the TypeMap lives a box has been released (once) exactly if a later
\* insert of its type replaced it, and the unreleased boxes are the ones
\* the map holds; after the drop every box has been released exactly once.
C9_ReleasedExactlyOnce ==
    /\ Len(heap) = Len(inserted)
    /\ \A p \in 1 .. Len(heap) :
            /\ heap[p].freed <= 1
            /\ pc = "build" =>
                    /\ heap[p].freed =
                           IF \E q \in (p + 1) .. Len(heap) : heap[q].tid = heap[p].tid
                           THEN 1 ELSE 0
                    /\ (heap[p].freed = 0) <=> (p \in Live)
            /\ pc = "dropped" => heap[p].freed = 1
    /\ pc = "dropped" => state = TypeMapNew

\* A TypeMap into which Counter was inserted twice and Y once was dropped.
C9_Witness ==
    /\ pc = "dropped"
    /\ Len(inserted) = 3
    /\ Cardinality({i \in 1 .. 3 : inserted[i][1] = Counter}) = 2
    /\ Cardinality({i \in 1 .. 3 : inserted[i][1] = Y}) = 1

\* The add_state calls of type T among the registrations made so far.
Given(T) == {r \in 1 .. Len(regs) : regs[r].kind = "state" /\ regs[r].T = T}

\* C11: while the application is being built, whatever add_state calls were
\* made (and whatever callbacks were registered between them), the state
\* holds a value of type T exactly if add_state was called with a T, that
\* value is the one of the last such call, and it sits in a live box.
C11_LastAddStateWins ==
    pc = "build" =>
        \A T \in UserTypes \cup EngineTypes :
            /\ (T \in DOMAIN state) <=> (Given(T) # {})
            /\ Given(T) # {} =>
                    /\ heap[state[T]].val = regs[Max(Given(T))].v
                    /\ heap[state[T]].tid = T
                    /\ heap[state[T]].freed = 0

\* add_state(Counter 0), add_state(Y 0), add_state(Counter 2): the state
\* holds Counter 2 and still Y 0.
C11_Witness ==
    /\ pc = "build"
    /\ Len(regs) = 3
    /\ regs[1] = Registration("state", NoCallback, Counter, 0)
    /\ regs[2] = Registration("state", NoCallback, Y, 0)
    /\ regs[3] = Registration("state", NoCallback, Counter, 2)
    /\ heap[state[Counter]].val = 2
    /\ heap[state[Y]].val = 0

\* The callback the running chain calls next declares a type the store has
\* no value of.
NextCallMissesType ==
    /\ Running
    /\ cur = <<>>
    /\ todo # <<>>
    /\ \E p \in 1 .. Len(Head(todo).callback.sig) :
            Head(todo).callback.sig[p].tid \notin DOMAIN state

Stopped == pc \in {"panicked", "unwound"}

\* C12: a callback whose declared types are not all in the store when it is
\* called panics in the extraction of its arguments: the step taken from
\* such a state is the panic, with the store and the record of completed
\* invocations untouched (the body did not run, the callback was not
\* skipped); a callback body only ever runs holding one reference per
\* parameter; and once the program panicked no callback completes any more
\* and the panic is never cleared.
C12_MissingTypeIsFatal ==
    /\ [][NextCallMissesType =>
            /\ pc' = "panicked"
            /\ panic'.kind = "MissingType"
            /\ log' = log
            /\ todo' = todo
            /\ state' = state
            /\ heap' = heap]_vars
    /\ [][Stopped =>
            /\ Stopped'
            /\ log' = log
            /\ panic' = panic
            /\ cur' \in {cur, <<>>}]_vars
    /\ []((Running /\ cur # <<>>) =>
            /\ Len(refs) = Len(cur[1].callback.sig)
            /\ \A p \in 1 .. Len(refs) :
                    /\ refs[p].tid = cur[1].callback.sig[p].tid
                    /\ TypeMapGet(state, refs[p].tid) = << refs[p].ptr >>)
    /\ [](panic.kind = "MissingType" => Stopped)

\* A frame callback panicked for a missing type in the first tick, after a
\* callback of the chain had returned and with another still to be called.
C12_Witness ==
    /\ pc = "panicked"
    /\ panic.kind = "MissingType"
    /\ tick = 1
    /\ Calls("frame") # <<>>
    /\ Len(todo) >= 2
    /\ cur = << Head(todo) >>

\* A parameter list written out: each parameter as its mode followed by its
\* type's name, a ", " between two parameters.
Rendered(sig, shared, exclusive) ==
    [i \in 1 .. (3 * Len(sig) - 1) |->
        IF i % 3 = 1
        THEN IF sig[(i + 2) \div 3].unique THEN exclusive ELSE shared
        ELSE IF i % 3 = 2 THEN type_name(sig[(i + 1) \div 3].tid)
        ELSE ", "]

\* The first parameter, in declaration order, that conflicts with another.
FirstConflicting(sig) ==
    Min({i \in 1 .. Len(sig) :
            \E j \in 1 .. Len(sig) :
                i # j /\ sig[i].tid = sig[j].tid /\ (sig[i].unique \/ sig[j].unique)})

\* The message of the panic names (by its short name) the type of the first
\* conflicting parameter of the signature.
NamesConflictingType(sig) ==
    panic.tname = type_name(sig[FirstConflicting(sig)].tid)

\* C13 as claimed: the listing of an illegal-signature message is the
\* parameter list in declaration order, each parameter written "shared T"
\* or "exclusive T", and the message names the conflicting type.
C13_ListingSharedExclusive ==
    panic.kind = "IllegalSignature" =>
        /\ panic.listing = Rendered(attempt[1].callback.sig, "shared ", "exclusive ")
        /\ NamesConflictingType(attempt[1].callback.sig)

\* C13 amended: the listing of an illegal-signature message is the
\* parameter list in declaration order, each parameter written "&T" or
\* "&mut T", and the message names the conflicting type.
C13_ListingAmpersand ==
    panic.kind = "IllegalSignature" =>
        /\ panic.listing = Rendered(attempt[1].callback.sig, "&", "&mut ")
        /\ NamesConflictingType(attempt[1].callback.sig)

\* (&Y, &mut Counter, &Counter) was rejected: the message lists
\* "&Y, &mut Counter, &Counter" and names Counter.
C13_Witness ==
    /\ pc = "panicked"
    /\ attempt[1].callback.sig = << Shared(Y), Exclusive(Counter), Shared(Counter) >>
    /\ panic.listing = << "&", "Y", ", ", "&mut ", "Counter", ", ", "&", "Counter" >>
    /\ panic.tname = "Counter"

\* The step is a call of add_frame_callback(callback): it returns, or panics.
RegistersFrame(callback) ==
    /\ pc = "build"
    /\ pc' \in {"build", "panicked"}
    /\ regs' # regs \/ pc' # pc
    /\ attempt' = << Registration("frame", callback, Unit, 0) >>

\* A frame callback declaring one &mut Counter is registered already.
ExclusiveCounterRegistered ==
    \E r \in 1 .. Len(regs) :
        regs[r].kind = "frame" /\ regs[r].callback.sig = << Exclusive(Counter) >>

\* C14 as claimed: with a frame callback declaring &mut Counter registered,
\* registering a second frame callback declaring &mut Counter panics, the
\* message citing Counter and listing (exclusive Counter, exclusive Counter).
C14_SecondExclusiveCallbackPanics ==
    [][(ExclusiveCounterRegistered /\ RegistersFrame(incr)) =>
            /\ pc' = "panicked"
            /\ panic'.kind = "IllegalSignature"
            /\ panic'.tname = "Counter"
            /\ panic'.listing =
                   Rendered(<< Exclusive(Counter), Exclusive(Counter) >>,
                            "shared ", "exclusive ")]_vars

\* C14 amended: registering one frame callback whose two parameters are
\* both &mut Counter panics, the message saying "multiple unique references
\* to", citing Counter and listing (&mut Counter, &mut Counter), whatever
\* was registered before; registering a frame callback that declares one
\* &mut Counter returns and appends it to the per-frame chain, also when
\* such a callback is registered already.
C14_TwoExclusiveParametersPanic ==
    /\ [][RegistersFrame(incr_twice) =>
            /\ pc' = "panicked"
            /\ panic' = [kind |-> "IllegalSignature",
                         reason |-> "multiple unique references to",
                         tname |-> "Counter",
                         listing |-> << "&mut ", "Counter", ", ", "&mut ", "Counter" >>]
            /\ frame_callbacks' = frame_callbacks
            /\ regs' = regs]_vars
    /\ [][RegistersFrame(incr) =>
            /\ pc' = "build"
            /\ panic' = NoPanic
            /\ regs' = Append(regs, Registration("frame", incr, Unit, 0))
            /\ CallOrder(frame_callbacks')
                   = Append(CallOrder(frame_callbacks),
                            Entry("frame", incr, Len(regs) + 1))]_vars

\* Two frame callbacks declaring &mut Counter each were registered, then the
\* registration of a frame callback declaring (&mut Counter, &mut Counter)
\* panicked.
C14_Witness ==
    /\ pc = "panicked"
    /\ Len(regs) = 2
    /\ regs[1] = Registration("frame", incr, Unit, 0)
    /\ regs[2] = Registration("frame", incr, Unit, 0)
    /\ attempt = << Registration("frame", incr_twice, Unit, 0) >>
    /\ panic.reason = "multiple unique references to"

\* The step is a call of add_frame_callback, add_init_callback or
\* add_state_with: it returns, or panics.
RegistersCallback ==
    /\ pc = "build"
    /\ pc' \in {"build", "panicked"}
    /\ regs' # regs \/ pc' # pc
    /\ attempt'[1].kind \in {"frame", "init", "state_with"}

\* C15: whether a registration call panics depends on the signature of the
\* callback it is given and on nothing registered before: it panics exactly
\* if that signature has a conflict of its own, and otherwise returns with
\* the callback registered; and at any moment the references in use are
\* those of the one callback being invoked, two of them pointing at the
\* same value only if both are shared.
C15_LegalityPerCallback ==
    /\ [][RegistersCallback =>
            /\ (pc' = "panicked") <=> Conflict(attempt'[1].callback.sig)
            /\ pc' = "build" => regs' = Append(regs, attempt'[1])]_vars
    /\ [](/\ Len(cur) <= 1
          /\ refs # <<>> => (cur # <<>> /\ Len(refs) = Len(cur[1].callback.sig))
          /\ \A i, j \in 1 .. Len(refs) :
                (i # j /\ refs[i].ptr = refs[j].ptr)
                    => (~refs[i].unique /\ ~refs[j].unique))

\* add_state(Counter 0) and two frame callbacks that each take &mut Counter:
\* both registrations returned, and in the first tick the second callback
\* is handed the Counter the first one has incremented and given back.
C15_Witness ==
    /\ Len(regs) = 3
    /\ regs[2] = Registration("frame", incr, Unit, 0)
    /\ regs[3] = Registration("frame", incr, Unit, 0)
    /\ pc = "frame"
    /\ tick = 1
    /\ Len(log) = 1
    /\ cur # <<>> /\ cur[1].reg = 3
    /\ refs[1].unique
    /\ heap[refs[1].ptr].val = 1

\* The signature has two parameters, a shared and an exclusive reference to
\* the same type, in either order.
SharedAndExclusive(sig) ==
    /\ Len(sig) = 2
    /\ sig[1].tid = sig[2].tid
    /\ sig[1].unique # sig[2].unique

\* C16: a registration call given a callback of two parameters, one &T and
\* one &mut T in either order, panics, and its message is the one of the
\* mixed case ("both unique and shared references to" T), not the one of
\* several exclusive references.
C16_MixedAccessMessage ==
    (attempt # <<>> /\ SharedAndExclusive(attempt[1].callback.sig)) =>
        /\ pc = "panicked"
        /\ panic.kind = "IllegalSignature"
        /\ panic.reason = "both unique and shared references to"
        /\ panic.reason # "multiple unique references to"
        /\ panic.tname = type_name(attempt[1].callback.sig[1].tid)
        /\ regs = <<>>

\* (&mut Counter, &Counter), the exclusive parameter first, was rejected
\* with the message of the mixed case.
C16_Witness ==
    /\ attempt # <<>>
    /\ attempt[1].callback.sig = << Exclusive(Counter), Shared(Counter) >>
    /\ pc = "panicked"
    /\ panic.reason = "both unique and shared references to"
    /\ panic.tname = "Counter"

\* C17 as claimed: a callback without parameters is accepted by every
\* registration operation: while the application is being built, each of
\* add_frame_callback, add_init_callback and add_state_with can be called
\* with one.
C17_ZeroParametersAccepted ==
    Building =>
        /\ ENABLED AddFrameCallback(nullary)
        /\ ENABLED AddInitCallback(nullary)
        /\ ENABLED AddStateWith(Callback(<<>>, Y, 0))

\* C18: from the moment the setup chain is invoked until the loop is left,
\* the store holds a live value of each of ResourceManager, Graphics, Input
\* and Assets; when the first setup callback is called they are the values
\* App::init made, whatever add_state put under those types before; and a
\* callback that panics for a missing type misses a type that is none of
\* the four.
C18_EngineResourcesPresent ==
    /\ pc \in {"init", "poll", "frame", "quit"} =>
            \A T \in EngineTypes :
                /\ T \in DOMAIN state
                /\ heap[state[T]].tid = T
                /\ heap[state[T]].freed = 0
    /\ (pc = "init" /\ log = <<>>) =>
            \A T \in EngineTypes : heap[state[T]].val = 0
    /\ (pc = "panicked" /\ panic.kind = "MissingType") =>
            /\ \E p \in 1 .. Len(cur[1].callback.sig) :
                    cur[1].callback.sig[p].tid \notin DOMAIN state \cup EngineTypes
            /\ EngineTypes \subseteq DOMAIN state

\* A setup callback and a frame callback that declare &Input and no
\* add_state of an Input: the setup callback has run and the frame callback
\* has run in the first and in the second tick.
C18_Witness ==
    /\ pc = "poll"
    /\ tick = 2
    /\ \A r \in 1 .. Len(regs) : regs[r].kind # "state"
    /\ \E i, j, k \in 1 .. Len(log) :
            /\ log[i].chain = "init" /\ CallbackOf(log[i]) = read_input
            /\ log[j].tick = 1 /\ CallbackOf(log[j]) = read_input
            /\ log[k].tick = 2 /\ CallbackOf(log[k]) = read_input

\* The registrations whose callbacks the per-frame chain has called and
\* seen return in tick t, in the order of the calls.
FrameCallsOf(t) ==
    LET done == SelectSeq(log, LAMBDA e : e.chain = "frame" /\ e.tick = t)
    IN  [i \in 1 .. Len(done) |-> done[i].reg]

\* s is a prefix of t.
IsPrefix(s, t) == Len(s) <= Len(t) /\ \A i \in 1 .. Len(s) : s[i] = t[i]

\* C19: the per-frame chain is invoked only from the poll loop and with
\* the event queue empty, in an iteration whose Input::update has been
\* called and after the swap of the iteration before; no event is polled
\* and the Input is not changed while the chain runs; the swap follows when
\* each frame callback has run exactly once in this tick, in registration
\* order; so the chain is never invoked twice without a swap between.
C19_FrameChainOncePerTick ==
    /\ [][(pc' = "frame" /\ pc # "frame") =>
            /\ pc = "events"
            /\ events' = <<>>
            /\ updates' = tick'
            /\ swaps' = tick' - 1
            /\ tick' = tick + 1
            /\ todo' = FrameChain]_vars
    /\ [][pc = "frame" => (polled' = polled /\ input' = input /\ updates' = updates)]_vars
    /\ [][swaps' # swaps =>
            /\ swaps' = swaps + 1
            /\ pc = "frame"
            /\ tick = swaps + 1
            /\ FrameCallsOf(tick) = RegsOf({"frame"})]_vars
    /\ [](/\ tick \in {swaps, swaps + 1}
          /\ tick = swaps + 1 <=> pc \in {"frame", "panicked", "unwound"}
          /\ \A t \in 1 .. swaps : FrameCallsOf(t) = RegsOf({"frame"})
          /\ IsPrefix(FrameCallsOf(swaps + 1), RegsOf({"frame"}))
          /\ \A i \in 1 .. Len(log) : log[i].tick <= tick)

\* Two events were polled in the first iteration and one in the second, and
\* the second swap has been made.
C19_Witness ==
    /\ pc = "poll"
    /\ tick = 2
    /\ swaps = 2
    /\ Len(polled) = 3
    /\ polled[1].update = 1
    /\ polled[2].update = 1
    /\ polled[3].update = 2
    /\ FrameCallsOf(2) = << 2, 3 >>

\* The number of invocations completed before log[j] that held the value
\* of type T exclusively.
WritesBefore(T, j) ==
    Cardinality({i \in 1 .. (j - 1) :
                    \E p \in 1 .. Len(CallbackOf(log[i]).sig) :
                        CallbackOf(log[i]).sig[p] = Exclusive(T)})

\* What the invocations of report have read, in order.
Reported ==
    LET done == SelectSeq(log, LAMBDA e : CallbackOf(e) = report)
    IN  [i \in 1 .. Len(done) |-> done[i].seen[1]]

\* C20: in the application add_state(Counter 0), add_frame_callback(incr),
\* add_frame_callback(report), the k-th invocation of report happens in
\* tick k and reads k, so after N ticks it has read 1, 2, .., N.  And in
\* every application whose Counter comes from add_state alone, a callback
\* with a Counter parameter reads the registered value plus the number of
\* invocations, of this tick or an earlier one, that held the Counter
\* exclusively before it (values wrap at ValMod).
C20_MutationsPersist ==
    /\ regs = CounterApp =>
            /\ \A k \in 1 .. Len(Reported) : Reported[k] = k
            /\ Len(Reported) <= tick
            /\ tick <= Len(Reported) + 1
            /\ pc = "poll" => Len(Reported) = tick
    /\ (Given(Counter) # {}
            /\ \A r \in 1 .. Len(regs) :
                    ~(regs[r].kind = "state_with" /\ regs[r].T = Counter)) =>
            \A j \in 1 .. Len(log) :
                \A p \in 1 .. Len(CallbackOf(log[j]).sig) :
                    CallbackOf(log[j]).sig[p].tid = Counter =>
                        log[j].seen[p] =
                            (regs[Max(Given(Counter))].v + WritesBefore(Counter, j))
                                % ValMod

\* Three ticks of the counter application have completed: report has read
\* 1, 2 and 3.
C20_Witness ==
    /\ regs = CounterApp
    /\ pc = "poll"
    /\ tick = 3
    /\ Reported = << 1, 2, 3 >>

\* C21 as claimed: the message of a panic for a missing type names a type
\* the store lacks, or lists the parameters of the callback that asked for
\* it.
C21_MissingTypeIsNamed ==
    (pc = "panicked" /\ panic.kind = "MissingType") =>
        LET sig == cur[1].callback.sig
        IN  \/ \E p \in 1 .. Len(sig) :
                    /\ sig[p].tid \notin DOMAIN state
                    /\ panic.tname = type_name(sig[p].tid)
            \/ panic.listing = Rendered(sig, "&", "&mut ")
            \/ panic.listing = Rendered(sig, "shared ", "exclusive ")

\* The polled events that count for key: the KeyDown and KeyUp events that
\* are no repeats and whose keycode convert_keycode maps to key.
KeyEventsOf(key) ==
    SelectSeq(polled, LAMBDA e : /\ e.event.type \in {"KeyDown", "KeyUp"}
                                 /\ ~e.event.repeat
                                 /\ convert_keycode(e.event.keycode) = << key >>)

\* The events of a type for key that were polled since the latest
\* Input::update.
PolledThisTick(type, key) ==
    {i \in 1 .. Len(KeyEventsOf(key)) :
        /\ KeyEventsOf(key)[i].event.type = type
        /\ KeyEventsOf(key)[i].update = updates}

\* The latest polled event is a repeat.
RepeatPolled == polled # <<>> /\ polled[Len(polled)].event.repeat

\* C27: while the callbacks of a tick run, is_key_pressed(k) holds exactly
\* when a KeyDown of k that is no repeat was polled since the update of that
\* tick, and is_key_released(k) exactly when such a KeyUp was; an update
\* leaves both lists empty, and polling a repeat event changes neither.
C27_PressedReleasedPerTick ==
    /\ [](pc = "frame" =>
            \A k \in KeyCodes :
                /\ is_key_pressed(input, k) <=> PolledThisTick("KeyDown", k) # {}
                /\ is_key_released(input, k) <=> PolledThisTick("KeyUp", k) # {})
    /\ [][/\ updates' # updates =>
                /\ input'.keys_pressed = <<>>
                /\ input'.keys_released = <<>>
          /\ (polled' # polled /\ RepeatPolled') =>
                /\ input'.keys_pressed = input.keys_pressed
                /\ input'.keys_released = input.keys_released]_vars

\* In the second tick, after a press in the first and a repeat in the
\* second: the key is down and not pressed.
C27_Witness ==
    /\ pc = "frame"
    /\ tick = 2
    /\ Len(polled) = 2
    /\ polled[1] = [event |-> KeyDown("A", FALSE), update |-> 1]
    /\ polled[2] = [event |-> KeyDown("A", TRUE), update |-> 2]
    /\ ~is_key_pressed(input, "A")
    /\ is_key_down(input, "A")

\* C28: is_key_down(k) holds exactly when the latest polled event of k that
\* is no repeat was a KeyDown; keys_down holds no key twice, and an update
\* does not change it.
C28_KeysDownFollowsLatestEvent ==
    /\ [](/\ \A k \in KeyCodes :
                is_key_down(input, k) <=>
                    /\ KeyEventsOf(k) # <<>>
                    /\ KeyEventsOf(k)[Len(KeyEventsOf(k))].event.type = "KeyDown"
          /\ \A i, j \in 1 .. Len(input.keys_down) :
                input.keys_down[i] = input.keys_down[j] => i = j)
    /\ [][updates' # updates => input'.keys_down = input.keys_down]_vars

\* A press in the first tick, the release in the second, seen by the
\* callbacks of the second tick: released, and no longer down.
C28_Witness ==
    /\ pc = "frame"
    /\ tick = 2
    /\ Len(polled) = 2
    /\ polled[1] = [event |-> KeyDown("A", FALSE), update |-> 1]
    /\ polled[2] = [event |-> KeyUp("A", FALSE), update |-> 2]
    /\ ~is_key_down(input, "A")
    /\ is_key_released(input, "A")

\* The message of the panic the program ended with.
PanickedWith(reason) ==
    pc = "panicked" /\ panic.kind = "Borrow" /\ panic.reason = reason

\* C22: get panics when a ResourceRefMut of the resource is alive and returns
\* otherwise; get_mut panics when any ResourceRef or ResourceRefMut of it is
\* alive and returns otherwise; a live ResourceRefMut is the only lock of its
\* resource.
C22_BorrowRulesEnforced ==
    /\ [](\A key \in DOMAIN guards :
            guards[key].unique > 0 =>
                guards[key].unique = 1 /\ guards[key].shared = 0)
    /\ [][\A key \in DOMAIN storage :
            /\ Get(key) =>
                IF guards[key].unique > 0
                THEN PanickedWith("cannot immutably borrow resource; already mutably borrowed")'
                ELSE pc' = pc
            /\ GetMut(key) =>
                CASE guards[key].unique > 0 ->
                        PanickedWith("cannot mutably borrow resource more than once")'
                  [] guards[key].shared > 0 ->
                        PanickedWith("cannot mutably borrow resource; already immutably borrowed")'
                  [] OTHER -> pc' = pc]_vars

\* Two ResourceRefs of one resource are alive and get_mut of it panicked.
C22_Witness ==
    /\ pc = "panicked"
    /\ call.op = "get_mut"
    /\ guards[call.key].shared = 2

\* C23 as claimed: a set of a resource that a live ResourceRef or
\* ResourceRefMut borrows panics and leaves the value as it was.
C23_NoOverwriteWhileBorrowed ==
    [][\A key \in DOMAIN storage :
            ((\E data \in Datas : Set(key, data)) /\ guards[key] # NoGuards) =>
                /\ pc' = "panicked"
                /\ storage'[key].data = storage[key].data]_vars

\* The alog entries of an operation for the path loaded as type T.
EventsFor(op, T, path) ==
    SelectSeq(alog, LAMBDA e : e.op = op /\ e.T = T /\ e.path = path)

\* C24: the load calls of one type and path all returned the same handle,
\* and for one type and path a handle was allocated, the file read and the
\* loader invoked once at most.
C24_LoadOncePerPath ==
    \A T \in ResourceTypes, path \in Paths :
        /\ \A i, j \in 1 .. Len(EventsFor("load", T, path)) :
                EventsFor("load", T, path)[i].idx = EventsFor("load", T, path)[j].idx
        /\ Len(EventsFor("allocate", T, path)) <= 1
        /\ Len(EventsFor("read", T, path)) <= 1
        /\ Len(EventsFor("loader", T, path)) <= 1

\* A path was loaded twice as a Sprite, with a load of another Sprite in
\* between, and its loader has run.
C24_Witness ==
    /\ Len(EventsFor("load", Sprite, "a.png")) = 2
    /\ Len(EventsFor("load", Sprite, "b.ttf")) = 1
    /\ Len(AssetEvents("load")) = 3
    /\ AssetEvents("load")[2].path = "b.ttf"
    /\ Len(EventsFor("loader", Sprite, "a.png")) = 1

\* C25 as claimed: a load of a path whose type and extension have no loader
\* panics.
C25_LoadWithoutLoaderPanics ==
    [][\A asset \in Loadable :
            /\ \E complete \in BOOLEAN : Load(asset[1], asset[2], complete)
            /\ << asset[1], extension(asset[2]) >> \notin loaders
            => pc' = "panicked"]_vars

\* C29: a call of update that returns has polled the pending tasks, each
\* once and in queue order; the loader of every task whose poll reported
\* completion was invoked once, in that order, and the queue it leaves is
\* the tasks that were not complete, in their order.  A call that panics
\* has polled a prefix of the queue.
C29_UpdatePollsQueueInOrder ==
    [][Update =>
            /\ IsPrefix(call'.key, tasks)
            /\ pc' = pc =>
                /\ call'.key = tasks
                /\ tasks' = SelectSeq(tasks, LAMBDA t : TaskKey(t) \notin ready)
                /\ alog' = (alog \o << AssetEvent("update", <<>>, "", 0) >>)
                            \o LoaderEvents(SelectSeq(tasks,
                                    LAMBDA t : TaskKey(t) \in ready))]_vars

\* An update polled two tasks: the first was complete and is gone, the
\* second stays.
C29_Witness ==
    /\ call.op = "update"
    /\ call.result = "()"
    /\ Len(call.key) = 2
    /\ tasks = << call.key[2] >>
    /\ alog[Len(alog)] = AssetEvent("loader", call.key[1].type_id,
                                    call.key[1].path, call.key[1].idx)

\* C26 as claimed: an iteration of the loop begins with a call of
\* Assets::update, so when the callbacks of the frame run no task whose
\* file was read by then is left in the queue.
C26_UpdateAtFrameStart ==
    [][BeginFrame => tasks' = SelectSeq(tasks, LAMBDA t : TaskKey(t) \notin ready)]_vars

\* load returned a handle for the key, its file has been read and a loader
\* is registered for its type and extension.
LoadedAndRead(key) ==
    \E T \in ResourceTypes, path \in Paths :
        /\ << T, path >> \in DOMAIN handles
        /\ << T, handles[<< T, path >>] >> = key
        /\ << T, extension(path) >> \in loaders
        /\ \/ key \in ready
           \/ \A i \in 1 .. Len(tasks) : TaskKey(tasks[i]) # key

\* ResourceManager::get of the key would return Some.
Available(key) == key \in DOMAIN storage /\ storage[key].data # <<>>

\* C30 as claimed: when frames keep coming, a handle load returned whose
\* file has been read and whose loader is registered becomes available to
\* get; until then get returns None and does not panic.
C30_LoadedEventuallyAvailable ==
    /\ []<>(pc = "poll") =>
            \A key \in ResourceKeys : LoadedAndRead(key) ~> Available(key)
    /\ [][\A key \in DOMAIN storage :
            (Get(key) /\ ~Available(key)) => call'.result = "None"]_vars

\* C31: allocate for T returns the greatest index storage holds for T plus
\* 1, or 1 when it holds none: an index of at least 1 that no resource of T
\* has; the resources of the other types stay as they are, and the new
\* resource is unset.  An unset resource becomes set by set only, and get
\* and get_mut of it return None.
C31_AllocateNextIndex ==
    /\ [](\A key \in DOMAIN storage : key[2] >= 1)
    /\ [][\A T \in ResourceTypes :
            Allocate(T) =>
                /\ call'.key[1] = T
                /\ call'.key[2] =
                        IF IndicesOf(storage, T) = {} THEN 1
                        ELSE Max(IndicesOf(storage, T)) + 1
                /\ call'.key \notin DOMAIN storage
                /\ DOMAIN storage' = DOMAIN storage \cup {call'.key}
                /\ \A key \in DOMAIN storage : storage'[key] = storage[key]
                /\ storage'[call'.key] = ResourceNew]_vars
    /\ [][\A key \in DOMAIN storage :
            storage[key].data = <<>> =>
                /\ storage'[key].data # <<>> => call'.op = "set"
                /\ (Get(key) \/ GetMut(key)) => call'.result = "None"]_vars

\* A Font was allocated after a Sprite and has index 1.
C31_Witness ==
    /\ call = [op |-> "allocate", key |-> << Font, 1 >>, result |-> "handle"]
    /\ DOMAIN storage = {<< Sprite, 1 >>, << Font, 1 >>}

\* C32: the flag of a resource is the number of its live ResourceRefs when
\* no ResourceRefMut of it is live, and -1 exactly when one is; a get or
\* get_mut that returns None and a set leave the flag as it was, and a
\* get_mut of a resource no lock of which is live does not panic.
C32_FlagCountsLocks ==
    /\ [](\A key \in DOMAIN storage :
            /\ guards[key].unique = 0 => storage[key].flag = guards[key].shared
            /\ storage[key].flag = -1 <=> guards[key].unique = 1
            /\ guards[key].unique <= 1)
    /\ [][\A key \in DOMAIN storage :
            /\ ((Get(key) \/ GetMut(key)) /\ call'.result = "None") =>
                    storage'[key].flag = storage[key].flag
            /\ (\E data \in Datas : Set(key, data)) =>
                    storage'[key].flag = storage[key].flag
            /\ (GetMut(key) /\ guards[key] = NoGuards) =>
                    /\ storage[key].flag = 0
                    /\ call'.result # "panic"]_vars

\* A ResourceRefMut was handed out for a resource whose earlier locks were
\* dropped, while a ResourceRef of another resource is alive.
C32_Witness ==
    /\ call.op = "get_mut"
    /\ call.result = "Some"
    /\ storage[call.key].flag = -1
    /\ \E key \in DOMAIN storage : storage[key].flag = 1 /\ guards[key].shared = 1

\* The latest polled event is Quit.
QuitPolled == polled # <<>> /\ polled[Len(polled)].event.type = "Quit"

\* The loop has been left through break 'running.
LoopLeft == pc \in {"quit", "exited"}

\* C33: the step that polls Quit leaves the loop, with Input, the ticks and
\* the swaps as they were; after it no callback runs, no event is polled or
\* applied to Input and no swap is made; the loop is left only after a
\* polled Quit, and short of that an iteration always has a next step.
C33_QuitStopsLoop ==
    /\ [][(polled' # polled /\ QuitPolled') =>
            /\ pc' = "quit"
            /\ input' = input
            /\ tick' = tick
            /\ swaps' = swaps
            /\ log' = log]_vars
    /\ [][LoopLeft =>
            /\ LoopLeft'
            /\ input' = input
            /\ events' = events
            /\ polled' = polled
            /\ tick' = tick
            /\ swaps' = swaps
            /\ log' = log
            /\ cur' = <<>>]_vars
    /\ [](LoopLeft => QuitPolled /\ swaps = tick)
    /\ []((pc \in {"poll", "events", "frame"} /\ tick < MaxTicks) =>
            ENABLED (InputUpdate \/ PollEvent \/ InvokeFrameChain
                        \/ CallBegin \/ CallEnd \/ Swap))

\* Quit was polled in the second iteration with a key press queued behind
\* it: the press stays in the queue and the key is not down.
C33_Witness ==
    /\ pc = "exited"
    /\ tick = 1
    /\ swaps = 1
    /\ updates = 2
    /\ events = << KeyDown("A", FALSE) >>
    /\ ~is_key_down(input, "A")
    /\ Len(log) = 2

\* Code outside replace_with can run, or a destructor of the unwinding can.
OutsideReplace == pc \in {"build", "panicked", "unwound"}

\* C34: when f returns, replace_with leaves in dest what f made of the value
\* dest held at the call, the old value having been passed to f once; when f
\* panics the process aborts, and dest is moved out only inside
\* replace_with or in the aborted process.  A registration whose signature
\* is illegal panics before replace_with is called: the chains hold their
\* values and the process has not aborted.
C34_ReplaceWithAbortsOnPanic ==
    /\ [][ReplaceWrite =>
            /\ (IF replacing.kind = "frame" THEN frame_callbacks'
                 ELSE init_callbacks') =
                    Compose(replacing.was[1], replacing.f.entry)
            /\ (IF replacing.kind = "frame" THEN init_callbacks' = init_callbacks
                 ELSE frame_callbacks' = frame_callbacks)
            /\ ~replacing.f.panics
            /\ replacing.uses = 1
            /\ replacing.old = <<>>]_vars
    /\ [][(pc = "apply" /\ replacing.f.panics) => pc' = "unwinding"]_vars
    /\ [][pc = "unwinding" => pc' = "aborted"]_vars
    /\ [](OutsideReplace =>
            frame_callbacks # MovedOut /\ init_callbacks # MovedOut)
    /\ [](pc = "aborted" => replacing.f.panics /\ panic = NoPanic)
    /\ [](panic.kind = "IllegalSignature" =>
            /\ pc = "panicked"
            /\ replacing = NoReplace
            /\ regs \o attempt # regs)
    /\ [](replacing.uses <= 1)

\* After a registration that returned, a call with a closure that panics
\* has aborted the process with the per-frame chain moved out.
C34_Witness ==
    /\ pc = "aborted"
    /\ Len(regs) = 1
    /\ replacing.kind = "frame"
    /\ replacing.was # << EmptyChain >>
    /\ frame_callbacks = MovedOut

====
